---- MODULE Spec2Model ----
(***************************************************************************)
(* Batch ingestion pipeline of cloud-dock/playground_batch_ingest:         *)
(* CSVProcessor (row validation in batch windows), BatchPublisher and      *)
(* DeadLetterQueue (per-message delivery with bounded retry and            *)
(* exponential backoff) and BatchProcessor (the single-item pipeline       *)
(* download -> metadata -> CSV -> DLQ/publish -> cleanup).                 *)
(***************************************************************************)
EXTENDS Integers, Sequences, FiniteSets, TLC

\* ------------------------------------------------------------------ bounds
\* Largest number of data rows of a source file.
MaxRows == 3
\* Largest configured batch window (batch_size ranges over 1..MaxBatch).
MaxBatch == 2
\* Largest configured max_retries (max_retries ranges over 0..MaxRetriesBound).
MaxRetriesBound == 2
\* Largest number of records handed directly to publish_batch_data.
MaxItems == 2
\* Largest number of data rows of a file that goes through process_file.
PfMaxRows == 2
\* Largest number of items handed to process_multiple_files.
MaxFiles == 3
\* Largest configured worker pool (max_workers ranges over 1..MaxWorkers).
MaxWorkers == 2
\* Largest max_retries for which the two delivery loops are run on their own.
MaxProbeRetries == 3
\* Largest number of envelopes built by direct calls of the typed senders.
MaxDlqSends == 2
\* Largest number of half hours that pass while the histories are watched.
MaxTicks == 2
\* Largest `limit` given to get_published_messages and get_dlq_messages.
MaxLimit == 3
\* Largest number of records one pool thread publishes through the shared publisher.
MaxShared == 2
\* Largest number of headers found in no schema in a file given to _detect_data_type.
MaxForeign == 1
\* For each schema, how many of the headers only it has are drawn together
\* with those of the other schemas.
MaxOwnDrawn == 1
\* A publisher is called again while the transport has given out at most
\* this many message ids.
MaxPublished == 2
\* The fractional digits an amount cell is written with.
MaxFracDigits == 8
\* The characters an encoding name is written with.
MaxEncodingLen == 2

\* ------------------------------------------------- configuration defaults
\* config.get("batch_size", 1000), config.get("max_retry_attempts", 3),
\* config.get("max_workers", 4) in BatchProcessor.__init__.
DefaultBatchSize == 1000
DefaultMaxRetries == 3
DefaultMaxWorkers == 4
\* recent_threshold = time.time() - 3600 in get_dlq_stats: an hour, in seconds.
Hour == 3600

\* ------------------------------------------------------------- value sets
\* What one row does in _process_batch: it validates, it fails with a
\* jsonschema ValidationError (decimal guard or schema), or the transformer /
\* float() raises another exception.
RowKinds == {"ok", "invalid", "crash"}

DataTypes == {"transaction", "shop", "product"}

\* State of the staged local file when process_csv_file looks at it.
FileStates == {"ok", "missing", "too_large", "unparseable"}

\* What the Pub/Sub transport does on one send attempt: it returns a message
\* id, raises GoogleCloudError, or raises any other exception.
Outcomes == {"ok", "transient", "fatal"}

None == "None"

\* An optional value: the empty set, or the set of the one value.
NoValue == {}
Some(x) == {x}
The(s) == CHOOSE x \in s : TRUE

RowSeqs == UNION {[1..n -> RowKinds] : n \in 0..MaxRows}
PfRowSeqs == UNION {[1..n -> RowKinds] : n \in 0..PfMaxRows}

VARIABLES
    \* configuration fixed by the constructors
    batch_size, max_retries,
    \* CSVProcessor.process_csv_file
    csv_pc, rows, data_type, total_rows, batch_start, processed_data, errors,
    csv_result,
    \* BatchPublisher.publish_batch_data
    pub_pc, pub_items, pub_idx, published_ids, failed_count, pub_result,
    published_messages, next_id,
    \* DeadLetterQueue: the rolling history, and every envelope a typed sender built
    dlq_messages, dlq_log,
    \* the delivery loops run by the latest step (None when it ran none)
    pub_call, dlq_call,
    \* BatchProcessor.process_file
    pf_pc, local_file_path, file_metadata, handed, publishing_result, pf_fault,
    pf_result, trace, cleanup_ret,
    \* BatchProcessor.process_gcs_event
    evt_pc, evt_result, event_data,
    \* BatchProcessor.process_multiple_files: the pool, the futures, the collector
    max_workers, file_list, fut, fut_outcome, worker, results, multi_pc, late,
    multi_result,
    \* what the latest step did if it was a direct call of a typed DLQ sender,
    \* or a run of the two delivery loops against one transport script
    sender_call, probe,
    \* time.time(), and what the latest step answered if it was a call of
    \* get_dlq_stats, or of get_published_messages or get_dlq_messages
    clock, dlq_stats, recent,
    \* the pool threads that publish and dead-letter through the shared
    \* BatchPublisher and DeadLetterQueue
    th,
    \* the latest call of process_csv_file on one source under two window
    \* sizes, and the latest call of _detect_data_type
    csv_runs, detected,
    \* what the latest step answered if it was a call of get_topic_info, the
    \* latest transaction row given to _process_batch on its own, and the
    \* latest call of the constructor of BatchProcessor
    topic_info, amount_row, constructed

csv_vars == <<csv_pc, rows, data_type, total_rows, batch_start, processed_data,
              errors, csv_result>>
cfg_vars == <<batch_size, max_retries>>
pub_vars == <<pub_pc, pub_items, pub_idx, published_ids, failed_count, pub_result,
              published_messages, next_id>>
dlq_vars == <<dlq_messages, dlq_log>>
call_vars == <<pub_call, dlq_call>>
pf_vars == <<pf_pc, local_file_path, file_metadata, handed, publishing_result,
             pf_fault, pf_result, trace, cleanup_ret>>
evt_vars == <<evt_pc, evt_result, event_data>>
multi_vars == <<max_workers, file_list, fut, fut_outcome, worker, results, multi_pc, late,
                multi_result>>
monitor_vars == <<clock, dlq_stats, recent>>
shared_vars == <<th>>
pure_vars == <<csv_runs, detected>>
digest_vars == <<topic_info, amount_row, constructed>>
direct_vars == <<sender_call, probe, monitor_vars, shared_vars, pure_vars, digest_vars>>
single_vars == <<cfg_vars, csv_vars, pub_vars, dlq_vars, call_vars, pf_vars, evt_vars, direct_vars>>
vars == <<single_vars, multi_vars>>

\* ------------------------------------------------------------ CSVProcessor

\* A step that runs no delivery loop.
NoCall == pub_call' = NoValue /\ dlq_call' = NoValue

Min(a, b) == IF a < b THEN a ELSE b

\* df.iloc[batch_start:batch_end]: the rows of the window, each with the index
\* label it has in the whole frame (a RangeIndex from 0; iloc keeps labels).
BatchDf(df, start, end) ==
    [k \in 1..(end - start) |-> [idx |-> start + k - 1, src |-> start + k, kind |-> df[start + k]]]

\* The error entry _process_batch records for a failing row.
RowError(r, batch_offset) ==
    [row |-> batch_offset + r.idx + 1,
     error |-> IF r.kind = "invalid" THEN "Schema validation error" ELSE "Processing error",
     data |-> r.src]

\* _process_batch, rows k..Len(batch_df) of the window, after acc = <<batch_data, batch_errors>>.
RECURSIVE ProcessBatchFrom(_, _, _, _)
ProcessBatchFrom(batch_df, batch_offset, k, acc) ==
    IF k > Len(batch_df) THEN acc
    ELSE LET r == batch_df[k] IN
         ProcessBatchFrom(batch_df, batch_offset, k + 1,
            IF r.kind = "ok"
            THEN <<Append(acc[1], [src |-> r.src]), acc[2]>>
            ELSE <<acc[1], Append(acc[2], RowError(r, batch_offset))>>)

\* _process_batch with the record appended before it is validated: a row
\* that fails validation is then in batch_data and in batch_errors.
RECURSIVE ProcessBatchAppendsEarlyFrom(_, _, _, _)
ProcessBatchAppendsEarlyFrom(batch_df, batch_offset, k, acc) ==
    IF k > Len(batch_df) THEN acc
    ELSE LET r == batch_df[k] IN
         ProcessBatchAppendsEarlyFrom(batch_df, batch_offset, k + 1,
            IF r.kind = "ok"
            THEN <<Append(acc[1], [src |-> r.src]), acc[2]>>
            ELSE IF r.kind = "invalid"
            THEN <<Append(acc[1], [src |-> r.src]), Append(acc[2], RowError(r, batch_offset))>>
            ELSE <<acc[1], Append(acc[2], RowError(r, batch_offset))>>)

ProcessBatchAppendsEarly(batch_df, batch_offset) ==
    ProcessBatchAppendsEarlyFrom(batch_df, batch_offset, 1, <<<<>>, <<>>>>)

\* _process_batch with one try around the whole loop: the first row that
\* raises an unexpected exception gets its error entry and ends the window.
RECURSIVE ProcessBatchStopsAtCrashFrom(_, _, _, _)
ProcessBatchStopsAtCrashFrom(batch_df, batch_offset, k, acc) ==
    IF k > Len(batch_df) THEN acc
    ELSE LET r == batch_df[k] IN
         IF r.kind = "crash"
         THEN <<acc[1], Append(acc[2], RowError(r, batch_offset))>>
         ELSE ProcessBatchStopsAtCrashFrom(batch_df, batch_offset, k + 1,
                 IF r.kind = "ok"
                 THEN <<Append(acc[1], [src |-> r.src]), acc[2]>>
                 ELSE <<acc[1], Append(acc[2], RowError(r, batch_offset))>>)

ProcessBatchStopsAtCrash(batch_df, batch_offset) ==
    ProcessBatchStopsAtCrashFrom(batch_df, batch_offset, 1, <<<<>>, <<>>>>)

ProcessBatch(batch_df, batch_offset) ==
    ProcessBatchFrom(batch_df, batch_offset, 1, <<<<>>, <<>>>>)

\* The dictionary process_csv_file returns from its except branch.
CsvFailure(dt) ==
    [data_type |-> dt, total_rows |-> 0, processed_rows |-> 0, error_count |-> 1,
     data |-> <<>>, errors |-> <<[row |-> 0, error |-> "exception", data |-> 0]>>,
     read_ok |-> FALSE]

\* process_csv_file up to the end of pd.read_csv: the staged file is in state
\* fs, holds the rows df, and _detect_data_type answers dt.
ProcessCsvFileEnter(fs, df, dt) ==
    /\ rows' = df
    /\ processed_data' = <<>>
    /\ errors' = <<>>
    /\ batch_start' = 0
    /\ IF fs \in {"missing", "too_large"}
       THEN /\ data_type' = None
            /\ total_rows' = 0
            /\ csv_result' = Some(CsvFailure("transaction"))
            /\ csv_pc' = "done"
       ELSE IF fs = "unparseable"
       THEN /\ data_type' = dt
            /\ total_rows' = 0
            /\ csv_result' = Some(CsvFailure(dt))
            /\ csv_pc' = "done"
       ELSE /\ data_type' = dt
            /\ total_rows' = Len(df)
            /\ csv_result' = NoValue
            /\ csv_pc' = "batches"

\* One pass of the loop with the window's records and errors put in front
\* of those of the windows before.
CsvBatchPrepends ==
    /\ csv_pc = "batches"
    /\ batch_start < total_rows
    /\ LET batch_end == Min(batch_start + batch_size, total_rows)
           res == ProcessBatch(BatchDf(rows, batch_start, batch_end), batch_start)
       IN /\ processed_data' = res[1] \o processed_data
          /\ errors' = res[2] \o errors
          /\ batch_start' = batch_start + batch_size
    /\ NoCall
    /\ UNCHANGED <<csv_pc, rows, data_type, total_rows, csv_result>>
    /\ UNCHANGED <<multi_vars, direct_vars, cfg_vars, pub_vars, dlq_vars, pf_vars, evt_vars>>

\* One pass of the loop `for batch_start in range(0, total_rows, batch_size)`.
CsvBatch ==
    /\ csv_pc = "batches"
    /\ batch_start < total_rows
    /\ LET batch_end == Min(batch_start + batch_size, total_rows)
           res == ProcessBatch(BatchDf(rows, batch_start, batch_end), batch_start)
       IN /\ processed_data' = processed_data \o res[1]
          /\ errors' = errors \o res[2]
          /\ batch_start' = batch_start + batch_size
    /\ NoCall
    /\ UNCHANGED <<csv_pc, rows, data_type, total_rows, csv_result>>
    /\ UNCHANGED <<multi_vars, direct_vars, cfg_vars, pub_vars, dlq_vars, pf_vars, evt_vars>>

\* The loop is over: the result dictionary is built and returned.
CsvReturn ==
    /\ csv_pc = "batches"
    /\ batch_start >= total_rows
    /\ csv_result' = Some([data_type |-> data_type, total_rows |-> total_rows,
                            processed_rows |-> Len(processed_data),
                            error_count |-> Len(errors),
                            data |-> processed_data, errors |-> errors,
                            read_ok |-> TRUE])
    /\ csv_pc' = "done"
    /\ NoCall
    /\ UNCHANGED <<rows, data_type, total_rows, batch_start, processed_data, errors>>
    /\ UNCHANGED <<multi_vars, direct_vars, cfg_vars, pub_vars, dlq_vars, pf_vars, evt_vars>>

\* The loop over the windows from batch_start = start on, as one function
\* of the frame and the window size: acc = <<processed_data, errors>>.
RECURSIVE WindowsFrom(_, _, _, _)
WindowsFrom(df, b, start, acc) ==
    IF start >= Len(df) THEN acc
    ELSE LET res == ProcessBatch(BatchDf(df, start, Min(start + b, Len(df))), start)
         IN WindowsFrom(df, b, start + b, <<acc[1] \o res[1], acc[2] \o res[2]>>)

\* process_csv_file on a readable source that stops after its first window.
ProcessCsvFileFirstWindow(df, b) ==
    LET res == ProcessBatch(BatchDf(df, 0, Min(b, Len(df))), 0)
    IN [total_rows |-> Len(df), processed_rows |-> Len(res[1]),
        error_count |-> Len(res[2]), data |-> res[1], errors |-> res[2]]

\* What process_csv_file returns for a readable source with rows df when the
\* processor was built with batch_size = b.
ProcessCsvFile(df, b) ==
    LET res == WindowsFrom(df, b, 0, <<<<>>, <<>>>>)
    IN [total_rows |-> Len(df), processed_rows |-> Len(res[1]),
        error_count |-> Len(res[2]), data |-> res[1], errors |-> res[2]]

\* One source is processed by two processors that differ in batch_size.
CsvTwoWindowSizes ==
    /\ csv_runs = NoValue
    /\ \E df \in RowSeqs, b1 \in 1..(MaxBatch + 1), b2 \in 1..(MaxBatch + 1) :
          csv_runs' = Some([rows |-> df, b1 |-> b1, b2 |-> b2,
                            first |-> ProcessCsvFile(df, b1),
                            second |-> ProcessCsvFile(df, b2)])
    /\ NoCall
    /\ UNCHANGED <<multi_vars, cfg_vars, csv_vars, pub_vars, dlq_vars, pf_vars, evt_vars>>
    /\ UNCHANGED <<sender_call, probe, monitor_vars, shared_vars, detected, digest_vars>>

\* A caller invokes process_csv_file on a staged file.
CsvCall ==
    /\ csv_pc = "idle"
    /\ \E fs \in FileStates, df \in RowSeqs, dt \in DataTypes :
          ProcessCsvFileEnter(fs, df, dt)
    /\ NoCall
    /\ UNCHANGED <<multi_vars, direct_vars, cfg_vars, pub_vars, dlq_vars, pf_vars, evt_vars>>

\* ---------------------------------------------------- retrying delivery

\* The transport's answers to the successive send attempts of one message:
\* as many as the largest configuration allows attempts. A transport asked
\* more often than that keeps raising the transient error.
ScriptLen == MaxRetriesBound + 1
Scripts == [1..ScriptLen -> Outcomes]
Answer(script, i) == IF i <= Len(script) THEN script[i] ELSE "transient"

RECURSIVE Pow2(_)
Pow2(n) == IF n = 0 THEN 1 ELSE 2 * Pow2(n - 1)

\* The number of leading GoogleCloudError answers of a script.
RECURSIVE LeadingTransients(_, _)
LeadingTransients(script, i) ==
    IF i > Len(script) \/ script[i] # "transient" THEN i - 1
    ELSE LeadingTransients(script, i + 1)

\* The first answer that is not a GoogleCloudError ("none" if there is none).
FirstOther(script) ==
    LET k == LeadingTransients(script, 1)
    IN IF k < Len(script) THEN script[k + 1] ELSE "none"

\* BatchPublisher._publish_single_message, the loop
\* `for attempt in range(self.max_retries + 1)` from `attempt` on:
\* whether the message was delivered, the send invocations made and the
\* backoff sleeps taken, in order.
RECURSIVE PublishSingleFrom(_, _, _, _)
PublishSingleFrom(script, mr, attempt, sleeps) ==
    IF attempt > mr
    THEN [delivered |-> FALSE, sends |-> attempt, sleeps |-> sleeps]
    ELSE IF Answer(script, attempt + 1) = "ok"
    THEN [delivered |-> TRUE, sends |-> attempt + 1, sleeps |-> sleeps]
    ELSE IF Answer(script, attempt + 1) = "transient"
    THEN IF attempt < mr
         THEN PublishSingleFrom(script, mr, attempt + 1, Append(sleeps, Pow2(attempt)))
         ELSE [delivered |-> FALSE, sends |-> attempt + 1, sleeps |-> sleeps]
    ELSE [delivered |-> FALSE, sends |-> attempt + 1, sleeps |-> sleeps]

\* The loop written `for attempt in range(self.max_retries)`: one attempt short.
PublishSingleOneShort(script, mr) ==
    IF mr = 0 THEN [delivered |-> FALSE, sends |-> 0, sleeps |-> <<>>]
    ELSE PublishSingleFrom(script, mr - 1, 0, <<>>)

\* The loop written `for attempt in range(self.max_retries + 2)` with the
\* retry test `attempt <= self.max_retries`: one attempt too many.
RECURSIVE PublishSingleOneMoreFrom(_, _, _, _)
PublishSingleOneMoreFrom(script, mr, attempt, sleeps) ==
    IF attempt > mr + 1
    THEN [delivered |-> FALSE, sends |-> attempt, sleeps |-> sleeps]
    ELSE IF Answer(script, attempt + 1) = "ok"
    THEN [delivered |-> TRUE, sends |-> attempt + 1, sleeps |-> sleeps]
    ELSE IF Answer(script, attempt + 1) = "transient"
    THEN IF attempt <= mr
         THEN PublishSingleOneMoreFrom(script, mr, attempt + 1, Append(sleeps, Pow2(attempt)))
         ELSE [delivered |-> FALSE, sends |-> attempt + 1, sleeps |-> sleeps]
    ELSE [delivered |-> FALSE, sends |-> attempt + 1, sleeps |-> sleeps]

PublishSingleOneMore(script, mr) == PublishSingleOneMoreFrom(script, mr, 0, <<>>)

\* The loop with a single `except Exception` clause that retries: an
\* unexpected error is slept on and retried like a transient one.
RECURSIVE PublishSingleRetriesAllFrom(_, _, _, _)
PublishSingleRetriesAllFrom(script, mr, attempt, sleeps) ==
    IF attempt > mr
    THEN [delivered |-> FALSE, sends |-> attempt, sleeps |-> sleeps]
    ELSE IF Answer(script, attempt + 1) = "ok"
    THEN [delivered |-> TRUE, sends |-> attempt + 1, sleeps |-> sleeps]
    ELSE IF attempt < mr
         THEN PublishSingleRetriesAllFrom(script, mr, attempt + 1, Append(sleeps, Pow2(attempt)))
         ELSE [delivered |-> FALSE, sends |-> attempt + 1, sleeps |-> sleeps]

PublishSingleRetriesAll(script, mr) == PublishSingleRetriesAllFrom(script, mr, 0, <<>>)

\* The loop without the test `attempt < self.max_retries`: it backs off
\* after every transient error, also after the one that ends the call.
RECURSIVE PublishSingleSleepsAlwaysFrom(_, _, _, _)
PublishSingleSleepsAlwaysFrom(script, mr, attempt, sleeps) ==
    IF attempt > mr
    THEN [delivered |-> FALSE, sends |-> attempt, sleeps |-> sleeps]
    ELSE IF Answer(script, attempt + 1) = "ok"
    THEN [delivered |-> TRUE, sends |-> attempt + 1, sleeps |-> sleeps]
    ELSE IF Answer(script, attempt + 1) = "transient"
    THEN PublishSingleSleepsAlwaysFrom(script, mr, attempt + 1, Append(sleeps, Pow2(attempt)))
    ELSE [delivered |-> FALSE, sends |-> attempt + 1, sleeps |-> sleeps]

PublishSingleSleepsAlways(script, mr) == PublishSingleSleepsAlwaysFrom(script, mr, 0, <<>>)

PublishSingleMessage(script, mr) == PublishSingleFrom(script, mr, 0, <<>>)

\* DeadLetterQueue._send_to_dlq, the same loop in dlq.py.
RECURSIVE SendToDlqFrom(_, _, _, _)
SendToDlqFrom(script, mr, attempt, sleeps) ==
    IF attempt > mr
    THEN [delivered |-> FALSE, sends |-> attempt, sleeps |-> sleeps]
    ELSE IF Answer(script, attempt + 1) = "ok"
    THEN [delivered |-> TRUE, sends |-> attempt + 1, sleeps |-> sleeps]
    ELSE IF Answer(script, attempt + 1) = "transient"
    THEN IF attempt < mr
         THEN SendToDlqFrom(script, mr, attempt + 1, Append(sleeps, Pow2(attempt)))
         ELSE [delivered |-> FALSE, sends |-> attempt + 1, sleeps |-> sleeps]
    ELSE [delivered |-> FALSE, sends |-> attempt + 1, sleeps |-> sleeps]

\* _send_to_dlq with a single `except Exception` clause that retries: an
\* unexpected error is slept on and retried like a transient one.
RECURSIVE SendToDlqRetriesAllFrom(_, _, _, _)
SendToDlqRetriesAllFrom(script, mr, attempt, sleeps) ==
    IF attempt > mr
    THEN [delivered |-> FALSE, sends |-> attempt, sleeps |-> sleeps]
    ELSE IF Answer(script, attempt + 1) = "ok"
    THEN [delivered |-> TRUE, sends |-> attempt + 1, sleeps |-> sleeps]
    ELSE IF attempt < mr
         THEN SendToDlqRetriesAllFrom(script, mr, attempt + 1, Append(sleeps, Pow2(attempt)))
         ELSE [delivered |-> FALSE, sends |-> attempt + 1, sleeps |-> sleeps]

SendToDlqRetriesAll(script, mr) == SendToDlqRetriesAllFrom(script, mr, 0, <<>>)

\* _send_to_dlq with the backoff written `wait_time = attempt + 1`.
RECURSIVE SendToDlqLinearBackoffFrom(_, _, _, _)
SendToDlqLinearBackoffFrom(script, mr, attempt, sleeps) ==
    IF attempt > mr
    THEN [delivered |-> FALSE, sends |-> attempt, sleeps |-> sleeps]
    ELSE IF Answer(script, attempt + 1) = "ok"
    THEN [delivered |-> TRUE, sends |-> attempt + 1, sleeps |-> sleeps]
    ELSE IF Answer(script, attempt + 1) = "transient"
    THEN IF attempt < mr
         THEN SendToDlqLinearBackoffFrom(script, mr, attempt + 1, Append(sleeps, attempt + 1))
         ELSE [delivered |-> FALSE, sends |-> attempt + 1, sleeps |-> sleeps]
    ELSE [delivered |-> FALSE, sends |-> attempt + 1, sleeps |-> sleeps]

SendToDlqLinearBackoff(script, mr) == SendToDlqLinearBackoffFrom(script, mr, 0, <<>>)

SendToDlq(script, mr) == SendToDlqFrom(script, mr, 0, <<>>)

\* What a step records of a delivery loop it ran: the script's shape (k
\* leading transient answers, then `term`) and what the loop did with it
\* (ret: the message id returned, 0 for Python's None / False).
CallRecord(script, r, ret) ==
    [k |-> LeadingTransients(script, 1), term |-> FirstOther(script),
     delivered |-> r.delivered, ret |-> ret, sends |-> r.sends, sleeps |-> r.sleeps]

\* ---------------------------------------------------------- BatchPublisher

\* The dictionary publish_batch_data returns for an empty data list.
EmptyPublishResult ==
    [success |-> TRUE, published_count |-> 0, failed_count |-> 0, message_ids |-> <<>>]

\* publish_batch_data up to the loop over data_items.
PublishBatchDataEnter(items) ==
    /\ pub_items' = items
    /\ pub_idx' = 0
    /\ published_ids' = <<>>
    /\ failed_count' = 0
    /\ IF items = <<>>
       THEN pub_result' = Some(EmptyPublishResult) /\ pub_pc' = "done"
       ELSE pub_result' = NoValue /\ pub_pc' = "loop"
    /\ UNCHANGED <<published_messages, next_id>>

\* publish_batch_data with a `break` after the first failed record.
PubRecordStopsOnFailure ==
    /\ pub_pc = "loop"
    /\ pub_idx < Len(pub_items)
    /\ \E script \in Scripts :
          LET r == PublishSingleMessage(script, max_retries)
              message_id == IF r.delivered THEN next_id ELSE 0
          IN /\ pub_call' = Some(CallRecord(script, r, message_id))
             /\ IF r.delivered
                THEN /\ published_messages' = Append(published_messages,
                            [message_id |-> message_id, item |-> pub_items[pub_idx + 1]])
                     /\ next_id' = next_id + 1
                ELSE UNCHANGED <<published_messages, next_id>>
             /\ IF message_id # 0
                THEN /\ published_ids' = Append(published_ids, message_id)
                     /\ failed_count' = failed_count
                     /\ pub_idx' = pub_idx + 1
                ELSE /\ failed_count' = failed_count + 1
                     /\ published_ids' = published_ids
                     /\ pub_idx' = Len(pub_items)
    /\ dlq_call' = NoValue
    /\ UNCHANGED <<pub_pc, pub_items, pub_result>>
    /\ UNCHANGED <<multi_vars, direct_vars, cfg_vars, csv_vars, dlq_vars, pf_vars, evt_vars>>

\* One pass of `for idx, data_item in enumerate(data_items)`: one call of
\* _publish_single_message, against a transport that follows some script.
PubRecord ==
    /\ pub_pc = "loop"
    /\ pub_idx < Len(pub_items)
    /\ \E script \in Scripts :
          LET r == PublishSingleMessage(script, max_retries)
              message_id == IF r.delivered THEN next_id ELSE 0
          IN /\ pub_call' = Some(CallRecord(script, r, message_id))
             \* inside _publish_single_message: the history entry of a delivery
             /\ IF r.delivered
                THEN /\ published_messages' = Append(published_messages,
                            [message_id |-> message_id, item |-> pub_items[pub_idx + 1]])
                     /\ next_id' = next_id + 1
                ELSE UNCHANGED <<published_messages, next_id>>
             \* back in publish_batch_data: `if message_id:`
             /\ IF message_id # 0
                THEN /\ published_ids' = Append(published_ids, message_id)
                     /\ failed_count' = failed_count
                ELSE /\ failed_count' = failed_count + 1
                     /\ published_ids' = published_ids
    /\ pub_idx' = pub_idx + 1
    /\ dlq_call' = NoValue
    /\ UNCHANGED <<pub_pc, pub_items, pub_result>>
    /\ UNCHANGED <<multi_vars, direct_vars, cfg_vars, csv_vars, dlq_vars, pf_vars, evt_vars>>

\* The loop is over: the result summary is built and returned.
PubReturn ==
    /\ pub_pc = "loop"
    /\ pub_idx >= Len(pub_items)
    /\ pub_result' = Some([success |-> failed_count = 0,
                            published_count |-> Len(published_ids),
                            failed_count |-> failed_count,
                            message_ids |-> published_ids])
    /\ pub_pc' = "done"
    /\ NoCall
    /\ UNCHANGED <<pub_items, pub_idx, published_ids, failed_count, published_messages, next_id>>
    /\ UNCHANGED <<multi_vars, direct_vars, cfg_vars, csv_vars, dlq_vars, pf_vars, evt_vars>>

\* The data lists a caller hands to publish_batch_data directly.
ItemSeqs == {[k \in 1..n |-> [src |-> k]] : n \in 0..MaxItems}

\* A caller invokes publish_batch_data.
PubCall ==
    /\ pub_pc = "idle"
    /\ \E items \in ItemSeqs : PublishBatchDataEnter(items)
    /\ NoCall
    /\ UNCHANGED <<multi_vars, direct_vars, cfg_vars, csv_vars, dlq_vars, pf_vars, evt_vars>>

\* --------------------------------------------------------- DeadLetterQueue

\* The envelopes of the four typed senders (dlq_message): the category and
\* what each carries; the fields a category does not carry are empty.
ProcessingErrorEnvelope(exception) ==
    [error_type |-> "processing_error", exception |-> exception, local_path |-> None,
     data_type |-> None, validation_errors |-> <<>>, publishing_result |-> NoValue]

FileErrorEnvelope(file_path, exception) ==
    [error_type |-> "file_error", exception |-> exception, local_path |-> file_path,
     data_type |-> None, validation_errors |-> <<>>, publishing_result |-> NoValue]

ValidationErrorsEnvelope(validation_errors, dt) ==
    [error_type |-> "validation_errors", exception |-> None, local_path |-> None,
     data_type |-> dt, validation_errors |-> validation_errors,
     publishing_result |-> NoValue]

PublishingErrorEnvelope(result) ==
    [error_type |-> "publishing_error", exception |-> None, local_path |-> None,
     data_type |-> None, validation_errors |-> <<>>, publishing_result |-> Some(result)]

\* A typed sender whose _send_to_dlq tracks the envelope in the history
\* whether or not the transport took it.
DlqSendTracksEveryAttempt(envelope) ==
    \E script \in Scripts :
        LET r == SendToDlq(script, max_retries)
        IN /\ dlq_call' = Some(CallRecord(script, r, IF r.delivered THEN 1 ELSE 0))
           /\ dlq_log' = Append(dlq_log, [envelope |-> envelope, delivered |-> r.delivered])
           /\ dlq_messages' = Append(dlq_messages, [envelope |-> Len(dlq_log) + 1,
                                                    error_type |-> envelope.error_type,
                                                    sent_at |-> clock])

\* A typed sender: the envelope is built and given to _send_to_dlq, which
\* appends to the history only once the transport has taken the message.
\* No sender raises: each returns whether the envelope was delivered.
DlqSend(envelope) ==
    \E script \in Scripts :
        LET r == SendToDlq(script, max_retries)
        IN /\ dlq_call' = Some(CallRecord(script, r, IF r.delivered THEN 1 ELSE 0))
           /\ dlq_log' = Append(dlq_log, [envelope |-> envelope, delivered |-> r.delivered])
           /\ dlq_messages' =
                 IF r.delivered
                 THEN Append(dlq_messages, [envelope |-> Len(dlq_log) + 1,
                                            error_type |-> envelope.error_type,
                                            sent_at |-> clock])
                 ELSE dlq_messages

NoDlqSend == dlq_call' = NoValue /\ UNCHANGED dlq_vars

\* --------------------------------------------------------- BatchProcessor

\* What os.path.exists / os.remove do with the staged file in cleanup_file.
LocalStates == {"present", "absent", "os_error"}

\* cleanup_file without its try: the error of os.remove leaves the method.
CleanupFileRaises(fs) == IF fs = "os_error" THEN "raise" ELSE "True"

\* GCSFileHandler.cleanup_file: True for a removed and for a missing file,
\* False when os.remove raises; the method itself raises nothing.
CleanupFile(fs) == IF fs = "os_error" THEN "False" ELSE "True"

\* The dictionaries process_file returns.
FileFailure(error) ==
    [success |-> FALSE, error |-> error, processing_summary |-> NoValue,
     publishing_summary |-> NoValue]

\* The success dictionary with the rows read reported as the rows processed.
FileSuccessReportsRowsRead(pd, pr) ==
    [success |-> TRUE, error |-> None,
     processing_summary |-> Some([data_type |-> pd.data_type, total_rows |-> pd.total_rows,
                                  processed_rows |-> pd.total_rows,
                                  error_count |-> pd.error_count]),
     publishing_summary |-> Some([published_count |-> pr.published_count,
                                  failed_count |-> pr.failed_count,
                                  message_ids |-> pr.message_ids])]

FileSuccess(pd, pr) ==
    [success |-> TRUE, error |-> None,
     processing_summary |-> Some([data_type |-> pd.data_type, total_rows |-> pd.total_rows,
                                  processed_rows |-> pd.processed_rows,
                                  error_count |-> pd.error_count]),
     publishing_summary |-> Some([published_count |-> pr.published_count,
                                  failed_count |-> pr.failed_count,
                                  message_ids |-> pr.message_ids])]

\* Step 1 without the early return: after the file error is sent the
\* pipeline goes on to the metadata lookup.
PfDownloadFallsThrough ==
    /\ pf_pc = "download"
    /\ \E path \in {None, "path"} :
          /\ local_file_path' = path
          /\ IF path = None
             THEN /\ DlqSend(FileErrorEnvelope(None, None))
                  /\ trace' = trace \o <<"download", "send_file_error">>
             ELSE /\ NoDlqSend
                  /\ trace' = Append(trace, "download")
          /\ pf_result' = pf_result
          /\ pf_pc' = "metadata"
    /\ pub_call' = NoValue
    /\ UNCHANGED <<file_metadata, cleanup_ret, handed, publishing_result, pf_fault>>
    /\ UNCHANGED <<multi_vars, direct_vars, cfg_vars, csv_vars, pub_vars, evt_vars>>

\* Step 1 of process_file: download_file answers a local path or None (it
\* raises nothing); without a path the file error is sent and the call returns.
PfDownload ==
    /\ pf_pc = "download"
    /\ \E path \in {None, "path"} :
          /\ local_file_path' = path
          /\ IF path = None
             THEN /\ DlqSend(FileErrorEnvelope(None, None))
                  /\ trace' = trace \o <<"download", "send_file_error">>
                  /\ pf_result' = Some(FileFailure("download_failed"))
                  /\ pf_pc' = "done"
             ELSE /\ NoDlqSend
                  /\ trace' = Append(trace, "download")
                  /\ pf_result' = pf_result
                  /\ pf_pc' = "metadata"
    /\ pub_call' = NoValue
    /\ UNCHANGED <<file_metadata, cleanup_ret, handed, publishing_result, pf_fault>>
    /\ UNCHANGED <<multi_vars, direct_vars, cfg_vars, csv_vars, pub_vars, evt_vars>>

\* Step 2: get_file_metadata answers the metadata or None, or the lookup raises.
PfMetadata ==
    /\ pf_pc = "metadata"
    /\ \E m \in {"meta", None, "raise"} :
          IF m = "raise"
          THEN pf_fault' = "metadata" /\ pf_pc' = "except" /\ file_metadata' = file_metadata
          ELSE pf_fault' = pf_fault /\ pf_pc' = "csv" /\ file_metadata' = m
    /\ trace' = Append(trace, "metadata")
    /\ NoCall
    /\ UNCHANGED <<local_file_path, cleanup_ret, handed, publishing_result, pf_result>>
    /\ UNCHANGED <<multi_vars, direct_vars, cfg_vars, csv_vars, pub_vars, dlq_vars, evt_vars>>

\* Step 3: process_csv_file is called on the staged file, or the call raises.
PfCsvCall ==
    /\ pf_pc = "csv"
    /\ \/ /\ \E fs \in FileStates, df \in PfRowSeqs, dt \in DataTypes :
                ProcessCsvFileEnter(fs, df, dt)
          /\ pf_pc' = "csv_wait"
          /\ pf_fault' = pf_fault
       \/ /\ pf_pc' = "except"
          /\ pf_fault' = "csv"
          /\ UNCHANGED csv_vars
    /\ trace' = Append(trace, "csv")
    /\ NoCall
    /\ UNCHANGED <<local_file_path, file_metadata, cleanup_ret, handed, publishing_result, pf_result>>
    /\ UNCHANGED <<multi_vars, direct_vars, cfg_vars, pub_vars, dlq_vars, evt_vars>>

\* Step 4 treating row errors as fatal for the item: the envelope is sent
\* and the publish step is skipped.
PfValidationErrorsSkipsPublish ==
    /\ pf_pc = "csv_wait"
    /\ csv_pc = "done"
    /\ LET pd == The(csv_result)
       IN IF pd.errors # <<>>
          THEN /\ DlqSend(ValidationErrorsEnvelope(pd.errors, pd.data_type))
               /\ trace' = Append(trace, "send_validation_errors")
               /\ publishing_result' = Some(EmptyPublishResult)
               /\ pf_pc' = "cleanup"
          ELSE /\ NoDlqSend
               /\ trace' = trace
               /\ publishing_result' = publishing_result
               /\ pf_pc' = "publish"
    /\ pub_call' = NoValue
    /\ UNCHANGED <<local_file_path, file_metadata, cleanup_ret, handed, pf_fault, pf_result>>
    /\ UNCHANGED <<multi_vars, direct_vars, cfg_vars, csv_vars, pub_vars, evt_vars>>

\* Step 4 followed at once by the cleanup of the staged file, as if the file
\* were no longer needed once it has been read.
PfValidationErrorsCleansUp ==
    /\ pf_pc = "csv_wait"
    /\ csv_pc = "done"
    /\ LET pd == The(csv_result)
       IN IF pd.errors # <<>>
          THEN /\ DlqSend(ValidationErrorsEnvelope(pd.errors, pd.data_type))
               /\ trace' = trace \o <<"send_validation_errors", "cleanup">>
          ELSE /\ NoDlqSend
               /\ trace' = Append(trace, "cleanup")
    /\ pf_pc' = "publish"
    /\ pub_call' = NoValue
    /\ UNCHANGED <<local_file_path, file_metadata, cleanup_ret, handed, publishing_result, pf_fault,
                   pf_result>>
    /\ UNCHANGED <<multi_vars, direct_vars, cfg_vars, csv_vars, pub_vars, evt_vars>>

\* Step 4 with the answer of the sender tested: a validation_errors
\* envelope the DLQ did not take ends the pipeline in the except branch.
PfValidationErrorsStopsOnFailedSend ==
    /\ pf_pc = "csv_wait"
    /\ csv_pc = "done"
    /\ LET pd == The(csv_result)
       IN IF pd.errors # <<>>
          THEN /\ DlqSend(ValidationErrorsEnvelope(pd.errors, pd.data_type))
               /\ trace' = Append(trace, "send_validation_errors")
               /\ IF dlq_log'[Len(dlq_log')].delivered
                  THEN pf_pc' = "publish" /\ pf_fault' = pf_fault
                  ELSE pf_pc' = "except" /\ pf_fault' = "send_validation_errors"
          ELSE /\ NoDlqSend
               /\ trace' = trace
               /\ pf_pc' = "publish"
               /\ pf_fault' = pf_fault
    /\ pub_call' = NoValue
    /\ UNCHANGED <<local_file_path, file_metadata, cleanup_ret, handed, publishing_result,
                   pf_result>>
    /\ UNCHANGED <<multi_vars, direct_vars, cfg_vars, csv_vars, pub_vars, evt_vars>>

\* Step 4: the row errors process_csv_file returned, if any, go to the DLQ
\* in one envelope.
PfValidationErrors ==
    /\ pf_pc = "csv_wait"
    /\ csv_pc = "done"
    /\ LET pd == The(csv_result)
       IN IF pd.errors # <<>>
          THEN /\ DlqSend(ValidationErrorsEnvelope(pd.errors, pd.data_type))
               /\ trace' = Append(trace, "send_validation_errors")
          ELSE /\ NoDlqSend
               /\ trace' = trace
    /\ pf_pc' = "publish"
    /\ pub_call' = NoValue
    /\ UNCHANGED <<local_file_path, file_metadata, cleanup_ret, handed, publishing_result, pf_fault,
                   pf_result>>
    /\ UNCHANGED <<multi_vars, direct_vars, cfg_vars, csv_vars, pub_vars, evt_vars>>

\* Step 5, first half, without the test of the data: publish_batch_data is
\* called with whatever process_csv_file returned, an empty list included.
PfPublishCallUnconditional ==
    /\ pf_pc = "publish"
    /\ LET pd == The(csv_result)
       IN /\ handed' = Some(pd.data)
          /\ trace' = Append(trace, "publish")
          /\ publishing_result' = Some(EmptyPublishResult)
          /\ \/ /\ PublishBatchDataEnter(pd.data)
                /\ pf_pc' = "publish_wait"
                /\ pf_fault' = pf_fault
             \/ /\ pf_pc' = "except"
                /\ pf_fault' = "publish"
                /\ UNCHANGED pub_vars
    /\ NoCall
    /\ UNCHANGED <<local_file_path, file_metadata, cleanup_ret, pf_result>>
    /\ UNCHANGED <<multi_vars, direct_vars, cfg_vars, csv_vars, dlq_vars, evt_vars>>

\* Step 5, first half: with valid records, publish_batch_data is called on
\* them (or the call raises); without, the default result stands (it has no
\* message_ids key, which the result summary reads as the empty list).
PfPublishCall ==
    /\ pf_pc = "publish"
    /\ LET pd == The(csv_result)
       IN IF pd.data # <<>>
          THEN /\ handed' = Some(pd.data)
               /\ trace' = Append(trace, "publish")
               /\ publishing_result' = Some(EmptyPublishResult)
               /\ \/ /\ PublishBatchDataEnter(pd.data)
                     /\ pf_pc' = "publish_wait"
                     /\ pf_fault' = pf_fault
                  \/ /\ pf_pc' = "except"
                     /\ pf_fault' = "publish"
                     /\ UNCHANGED pub_vars
          ELSE /\ publishing_result' = Some(EmptyPublishResult)
               /\ pf_pc' = "cleanup"
               /\ UNCHANGED <<handed, trace, pf_fault, pub_vars>>
    /\ NoCall
    /\ UNCHANGED <<local_file_path, file_metadata, cleanup_ret, pf_result>>
    /\ UNCHANGED <<multi_vars, direct_vars, cfg_vars, csv_vars, dlq_vars, evt_vars>>

\* Step 5, second half, without the test of the result: a publishing error
\* is sent after every publish call.
PfPublishReturnAlwaysSends ==
    /\ pf_pc = "publish_wait"
    /\ pub_pc = "done"
    /\ LET pr == The(pub_result)
       IN /\ publishing_result' = Some(pr)
          /\ DlqSend(PublishingErrorEnvelope(pr))
          /\ trace' = Append(trace, "send_publishing_error")
    /\ pf_pc' = "cleanup"
    /\ pub_call' = NoValue
    /\ UNCHANGED <<local_file_path, file_metadata, cleanup_ret, handed, pf_fault, pf_result>>
    /\ UNCHANGED <<multi_vars, direct_vars, cfg_vars, csv_vars, pub_vars, evt_vars>>

\* Step 5, second half: publish_batch_data has returned; a result that is
\* not a full success goes to the DLQ as a publishing error.
PfPublishReturn ==
    /\ pf_pc = "publish_wait"
    /\ pub_pc = "done"
    /\ LET pr == The(pub_result)
       IN /\ publishing_result' = Some(pr)
          /\ IF ~pr.success \/ pr.failed_count > 0
             THEN /\ DlqSend(PublishingErrorEnvelope(pr))
                  /\ trace' = Append(trace, "send_publishing_error")
             ELSE /\ NoDlqSend
                  /\ trace' = trace
    /\ pf_pc' = "cleanup"
    /\ pub_call' = NoValue
    /\ UNCHANGED <<local_file_path, file_metadata, cleanup_ret, handed, pf_fault, pf_result>>
    /\ UNCHANGED <<multi_vars, direct_vars, cfg_vars, csv_vars, pub_vars, evt_vars>>

\* Step 6 and the return: cleanup_file on the staged file, then the result
\* summary. (A cleanup_file that raised would be caught by the except branch.)
PfCleanup ==
    /\ pf_pc = "cleanup"
    /\ \E fs \in LocalStates :
          LET r == IF local_file_path # None THEN CleanupFile(fs) ELSE None
          IN /\ trace' = IF local_file_path # None THEN Append(trace, "cleanup") ELSE trace
             /\ IF r = "raise"
                THEN /\ pf_pc' = "except"
                     /\ pf_fault' = "cleanup"
                     /\ UNCHANGED <<cleanup_ret, pf_result>>
                ELSE /\ pf_pc' = "done"
                     /\ pf_fault' = pf_fault
                     /\ cleanup_ret' = r
                     /\ pf_result' = Some(FileSuccess(The(csv_result), The(publishing_result)))
    /\ NoCall
    /\ UNCHANGED <<local_file_path, file_metadata, handed, publishing_result>>
    /\ UNCHANGED <<multi_vars, direct_vars, cfg_vars, csv_vars, pub_vars, dlq_vars, evt_vars>>

\* The except branch without the DLQ send: the failure is only logged.
PfExceptNoDlq ==
    /\ pf_pc = "except"
    /\ \E fs \in LocalStates :
          LET r == IF local_file_path # None THEN CleanupFile(fs) ELSE None
          IN /\ trace' = IF local_file_path # None THEN Append(trace, "cleanup") ELSE trace
             /\ NoDlqSend
             /\ IF r = "raise"
                THEN pf_pc' = "raised" /\ UNCHANGED <<cleanup_ret, pf_result>>
                ELSE /\ pf_pc' = "done"
                     /\ cleanup_ret' = r
                     /\ pf_result' = Some(FileFailure("file_exception"))
    /\ pub_call' = NoValue
    /\ UNCHANGED <<local_file_path, file_metadata, handed, publishing_result, pf_fault>>
    /\ UNCHANGED <<multi_vars, direct_vars, cfg_vars, csv_vars, pub_vars, evt_vars>>

\* The except branch without the cleanup of the staged file.
PfExceptNoCleanup ==
    /\ pf_pc = "except"
    /\ DlqSend(FileErrorEnvelope(local_file_path, pf_fault))
    /\ trace' = Append(trace, "send_file_error")
    /\ pf_result' = Some(FileFailure("file_exception"))
    /\ pf_pc' = "done"
    /\ pub_call' = NoValue
    /\ UNCHANGED <<local_file_path, file_metadata, cleanup_ret, handed, publishing_result,
                   pf_fault>>
    /\ UNCHANGED <<multi_vars, direct_vars, cfg_vars, csv_vars, pub_vars, evt_vars>>

\* The except branch of process_file: cleanup of the staged file, the DLQ
\* envelope, the failure result. Nothing here is inside a try: a
\* cleanup_file that raised would leave process_file with the exception.
PfExcept ==
    /\ pf_pc = "except"
    /\ \E fs \in LocalStates :
          LET r == IF local_file_path # None THEN CleanupFile(fs) ELSE None
          IN IF r = "raise"
             THEN /\ pf_pc' = "raised"
                  /\ trace' = Append(trace, "cleanup")
                  /\ NoDlqSend
                  /\ UNCHANGED <<cleanup_ret, pf_result>>
             ELSE /\ pf_pc' = "done"
                  /\ cleanup_ret' = r
                  /\ DlqSend(FileErrorEnvelope(local_file_path, pf_fault))
                  /\ trace' = (IF local_file_path # None THEN Append(trace, "cleanup")
                                ELSE trace) \o <<"send_file_error">>
                  /\ pf_result' = Some(FileFailure("file_exception"))
    /\ pub_call' = NoValue
    /\ UNCHANGED <<local_file_path, file_metadata, handed, publishing_result, pf_fault>>
    /\ UNCHANGED <<multi_vars, direct_vars, cfg_vars, csv_vars, pub_vars, evt_vars>>

\* The dictionaries process_gcs_event returns without a file result.
EventFailure(error, skipped) ==
    [success |-> FALSE, error |-> error, skipped |-> skipped, file_result |-> NoValue]

\* What is_supported_file_type does with the object name: it answers, or it
\* raises (a name that is no string).
SupportAnswers == {"supported", "unsupported", "raise"}

\* process_gcs_event without the test of the file type: every named object
\* is given to process_file.
EvtStartSkipsTypeCheck ==
    /\ evt_pc = "idle"
    /\ \E bucket_name \in BOOLEAN, object_name \in BOOLEAN, sup \in SupportAnswers :
          /\ event_data' = Some([bucket_name |-> bucket_name, object_name |-> object_name,
                                  file_type |-> sup])
          /\ IF ~bucket_name \/ ~object_name
             THEN /\ evt_result' = Some(EventFailure("missing_name", FALSE))
                  /\ evt_pc' = "done"
                  /\ NoDlqSend
                  /\ UNCHANGED pf_vars
             ELSE IF sup = "raise"
             THEN /\ evt_result' = Some(EventFailure("event_exception", FALSE))
                  /\ evt_pc' = "done"
                  /\ DlqSend(ProcessingErrorEnvelope("is_supported_file_type"))
                  /\ UNCHANGED pf_vars
             ELSE /\ evt_result' = evt_result
                  /\ evt_pc' = "in_file"
                  /\ NoDlqSend
                  /\ pf_pc' = "download"
                  /\ UNCHANGED <<local_file_path, file_metadata, cleanup_ret, handed, publishing_result,
                                 pf_fault, pf_result, trace>>
    /\ pub_call' = NoValue
    /\ UNCHANGED <<multi_vars, direct_vars, cfg_vars, csv_vars, pub_vars>>

\* process_gcs_event up to the call of process_file, with its except branch.
EvtStart ==
    /\ evt_pc = "idle"
    /\ \E bucket_name \in BOOLEAN, object_name \in BOOLEAN, sup \in SupportAnswers :
          /\ event_data' = Some([bucket_name |-> bucket_name, object_name |-> object_name,
                                  file_type |-> sup])
          /\ IF ~bucket_name \/ ~object_name
             THEN /\ evt_result' = Some(EventFailure("missing_name", FALSE))
                  /\ evt_pc' = "done"
                  /\ NoDlqSend
                  /\ UNCHANGED pf_vars
             ELSE IF sup = "raise"
             THEN /\ evt_result' = Some(EventFailure("event_exception", FALSE))
                  /\ evt_pc' = "done"
                  /\ DlqSend(ProcessingErrorEnvelope("is_supported_file_type"))
                  /\ UNCHANGED pf_vars
             ELSE IF sup = "unsupported"
             THEN /\ evt_result' = Some(EventFailure("unsupported", TRUE))
                  /\ evt_pc' = "done"
                  /\ NoDlqSend
                  /\ UNCHANGED pf_vars
             ELSE /\ evt_result' = evt_result
                  /\ evt_pc' = "in_file"
                  /\ NoDlqSend
                  /\ pf_pc' = "download"
                  /\ UNCHANGED <<local_file_path, file_metadata, cleanup_ret, handed, publishing_result,
                                 pf_fault, pf_result, trace>>
    /\ pub_call' = NoValue
    /\ UNCHANGED <<multi_vars, direct_vars, cfg_vars, csv_vars, pub_vars>>

\* process_file has returned: its result, with the timing and the names
\* added, is the event's result.
EvtReturn ==
    /\ evt_pc = "in_file"
    /\ pf_pc = "done"
    /\ evt_result' = Some([success |-> The(pf_result).success, error |-> The(pf_result).error,
                           skipped |-> FALSE, file_result |-> pf_result])
    /\ evt_pc' = "done"
    /\ event_data' = event_data
    /\ NoCall
    /\ UNCHANGED <<multi_vars, direct_vars, cfg_vars, csv_vars, pub_vars, dlq_vars, pf_vars>>

\* ------------------------------------------ BatchProcessor: several items

\* What a worker's call of process_file ends with: one of the dictionaries
\* process_file returns, a failure or a success with its two counts
\* <<processed_rows, published_count>>. (process_file catches every
\* Exception, so `raised` is FALSE for each of them; the collector tests it
\* all the same.)
ItemCounts == {<<1, 1>>, <<2, 1>>}

ItemOutcomes ==
    {[raised |-> FALSE, result |-> FileFailure("download_failed")]}
    \cup
    {[raised |-> FALSE,
      result |-> FileSuccess([data_type |-> "transaction", total_rows |-> c[1],
                              processed_rows |-> c[1], error_count |-> 0],
                             [published_count |-> c[2], failed_count |-> c[1] - c[2],
                              message_ids |-> [k \in 1..c[2] |-> k]])] : c \in ItemCounts}

\* The dictionary the collector appends for a future whose result() raised.
ErrorResult == FileFailure("timeout_or_error")

\* sum(...) of a list of numbers.
RECURSIVE Sum(_)
Sum(q) == IF q = <<>> THEN 0 ELSE Head(q) + Sum(Tail(q))

\* r.get("processing_summary", {}).get("processed_rows", 0) and its twin.
ProcessedRowsOf(e) ==
    IF e.result.processing_summary = NoValue THEN 0
    ELSE The(e.result.processing_summary).processed_rows

PublishedCountOf(e) ==
    IF e.result.publishing_summary = NoValue THEN 0
    ELSE The(e.result.publishing_summary).published_count

SuccessOf(e) == IF e.result.success THEN 1 ELSE 0

Running == {i \in DOMAIN fut : fut[i] = "running"}
Pending == {i \in DOMAIN fut : fut[i] = "pending"}
Collected == {results[j].file_info : j \in DOMAIN results}

\* process_multiple_files up to as_completed: the empty list returns at
\* once; otherwise every item is submitted to the pool, in list order.
MultiCall ==
    /\ multi_pc = "idle"
    /\ \E n \in 0..MaxFiles :
          /\ file_list' = [i \in 1..n |-> i]
          /\ fut' = [i \in 1..n |-> "pending"]
          /\ fut_outcome' = [i \in 1..n |-> NoValue]
          /\ IF n = 0
             THEN /\ multi_result' = Some([success |-> TRUE, processed_files |-> 0,
                                            results |-> <<>>])
                  /\ multi_pc' = "done"
             ELSE /\ multi_result' = NoValue
                  /\ multi_pc' = "collect"
    /\ UNCHANGED <<max_workers, worker, results, late>>
    /\ UNCHANGED single_vars

\* A pool that starts a new thread for queued work whenever none is idle,
\* without looking at max_workers.
WorkerTakeSpawns ==
    /\ Pending # {}
    /\ LET i == CHOOSE i \in Pending : \A j \in Pending : i <= j
       IN /\ \/ \E w \in DOMAIN worker :
                   worker[w] = 0 /\ worker' = [worker EXCEPT ![w] = i]
             \/ /\ \A w \in DOMAIN worker : worker[w] # 0
                /\ worker' = Append(worker, i)
          /\ fut' = [fut EXCEPT ![i] = "running"]
    /\ UNCHANGED <<max_workers, file_list, fut_outcome, results, multi_pc, late, multi_result>>
    /\ UNCHANGED single_vars

\* An idle pool thread takes the oldest queued work item and calls process_file.
WorkerTake ==
    /\ Pending # {}
    /\ \E w \in DOMAIN worker :
          /\ worker[w] = 0
          /\ LET i == CHOOSE i \in Pending : \A j \in Pending : i <= j
             IN /\ worker' = [worker EXCEPT ![w] = i]
                /\ fut' = [fut EXCEPT ![i] = "running"]
    /\ UNCHANGED <<max_workers, file_list, fut_outcome, results, multi_pc, late, multi_result>>
    /\ UNCHANGED single_vars

\* A worker's process_file returns: the future is finished with its result.
WorkerFinish ==
    /\ \E w \in DOMAIN worker, o \in ItemOutcomes :
          /\ worker[w] # 0
          /\ fut' = [fut EXCEPT ![worker[w]] = "finished"]
          /\ fut_outcome' = [fut_outcome EXCEPT ![worker[w]] = Some(o)]
          /\ worker' = [worker EXCEPT ![w] = 0]
    /\ UNCHANGED <<max_workers, file_list, results, multi_pc, late, multi_result>>
    /\ UNCHANGED single_vars

\* The collector with file_info taken from the list by position, the k-th
\* yielded future named after the k-th submitted item.
CollectNamesByPosition ==
    /\ multi_pc = "collect"
    /\ Len(results) < Len(file_list)
    /\ \E i \in DOMAIN fut :
          /\ fut[i] = "finished"
          /\ i \notin Collected
          /\ LET o == The(fut_outcome[i])
             IN results' = Append(results,
                    [file_info |-> file_list[Len(results) + 1],
                     result |-> IF o.raised THEN ErrorResult ELSE o.result])
    /\ UNCHANGED <<max_workers, file_list, fut, fut_outcome, worker, multi_pc, late,
                   multi_result>>
    /\ UNCHANGED single_vars

\* One pass of `for future in as_completed(...)`: a finished future is
\* yielded and its result (or the error entry) appended.
Collect ==
    /\ multi_pc = "collect"
    /\ \E i \in DOMAIN fut :
          /\ fut[i] = "finished"
          /\ i \notin Collected
          /\ LET o == The(fut_outcome[i])
             IN results' = Append(results,
                    [file_info |-> i,
                     result |-> IF o.raised THEN ErrorResult ELSE o.result])
    /\ UNCHANGED <<max_workers, file_list, fut, fut_outcome, worker, multi_pc, late,
                   multi_result>>
    /\ UNCHANGED single_vars

\* processing_timeout elapses while a future is unfinished: as_completed
\* raises TimeoutError in the `for` statement, outside the loop body's try.
\* The exception leaves the `with` block, whose exit waits for the pool.
Timeout ==
    /\ multi_pc = "collect"
    /\ \E i \in DOMAIN fut : fut[i] # "finished"
    /\ late' = {i \in DOMAIN fut : fut[i] # "finished"}
    /\ multi_pc' = "shutdown"
    /\ UNCHANGED <<max_workers, file_list, fut, fut_outcome, worker, results, multi_result>>
    /\ UNCHANGED single_vars

\* executor.shutdown(wait=True) is over after a timeout: the TimeoutError
\* leaves process_multiple_files.
MultiRaise ==
    /\ multi_pc = "shutdown"
    /\ \A i \in DOMAIN fut : fut[i] = "finished"
    /\ multi_pc' = "raised"
    /\ UNCHANGED <<max_workers, file_list, fut, fut_outcome, worker, results, late,
                   multi_result>>
    /\ UNCHANGED single_vars

\* The summary with `success` computed as "some item succeeded".
MultiReturnAnySuccess ==
    /\ multi_pc = "collect"
    /\ Collected = DOMAIN fut
    /\ LET successful == Sum([j \in DOMAIN results |-> SuccessOf(results[j])])
       IN multi_result' = Some([success |-> successful > 0,
                                processed_files |-> Len(file_list),
                                successful_files |-> successful,
                                failed_files |-> Len(file_list) - successful,
                                total_records_processed |->
                                    Sum([j \in DOMAIN results |-> ProcessedRowsOf(results[j])]),
                                total_records_published |->
                                    Sum([j \in DOMAIN results |-> PublishedCountOf(results[j])]),
                                results |-> results])
    /\ multi_pc' = "done"
    /\ UNCHANGED <<max_workers, file_list, fut, fut_outcome, worker, results, late>>
    /\ UNCHANGED single_vars

\* Every future was yielded: the summary statistics and the return.
MultiReturn ==
    /\ multi_pc = "collect"
    /\ Collected = DOMAIN fut
    /\ LET successful == Sum([j \in DOMAIN results |-> SuccessOf(results[j])])
       IN multi_result' = Some([success |-> successful = Len(file_list),
                                processed_files |-> Len(file_list),
                                successful_files |-> successful,
                                failed_files |-> Len(file_list) - successful,
                                total_records_processed |-> 
                                    Sum([j \in DOMAIN results |-> ProcessedRowsOf(results[j])]),
                                total_records_published |-> 
                                    Sum([j \in DOMAIN results |-> PublishedCountOf(results[j])]),
                                results |-> results])
    /\ multi_pc' = "done"
    /\ UNCHANGED <<max_workers, file_list, fut, fut_outcome, worker, results, late>>
    /\ UNCHANGED single_vars

\* ------------------------------------------- the typed senders, called directly

\* What happens before the delivery loop of a typed sender: the envelope and
\* the attributes are built, or building them raises (an argument of the
\* wrong shape, such as a publishing_result without `get`).
Builds == {"built", "raises"}

\* The body of a typed sender: inside its try the envelope is built and
\* handed to _send_to_dlq, whose answer is returned; the except clause turns
\* any exception into False.
TypedSender(envelope, build) ==
    /\ IF build = "raises"
       THEN /\ NoDlqSend
            /\ sender_call' = Some([error_type |-> envelope.error_type, built |-> FALSE,
                                     sent |-> NoValue, ret |-> FALSE, raised |-> FALSE])
       ELSE /\ DlqSend(envelope)
            /\ sender_call' = Some([error_type |-> envelope.error_type, built |-> TRUE,
                                     sent |-> dlq_call', ret |-> The(dlq_call').delivered,
                                     raised |-> FALSE])
    /\ pub_call' = NoValue
    /\ probe' = probe
    /\ UNCHANGED <<shared_vars, pure_vars, digest_vars>>
    /\ clock' = clock
    /\ dlq_stats' = NoValue
    /\ recent' = NoValue
    /\ UNCHANGED <<multi_vars, cfg_vars, csv_vars, pub_vars, pf_vars, evt_vars>>

\* A caller invokes send_processing_error.
SendProcessingError ==
    /\ Len(dlq_log) < MaxDlqSends
    /\ \E build \in Builds : TypedSender(ProcessingErrorEnvelope("exception"), build)

\* A caller invokes send_file_error.
SendFileError ==
    /\ Len(dlq_log) < MaxDlqSends
    /\ \E build \in Builds : TypedSender(FileErrorEnvelope("path", "exception"), build)

\* A caller invokes send_validation_errors.
SendValidationErrors ==
    /\ Len(dlq_log) < MaxDlqSends
    /\ \E build \in Builds :
          TypedSender(ValidationErrorsEnvelope(
              <<[row |-> 1, error |-> "Schema validation error", data |-> 1]>>,
              "transaction"), build)

\* A caller invokes send_publishing_error.
SendPublishingError ==
    /\ Len(dlq_log) < MaxDlqSends
    /\ \E build \in Builds :
          TypedSender(PublishingErrorEnvelope(
              [success |-> FALSE, published_count |-> 0, failed_count |-> 1,
               message_ids |-> <<>>]), build)

\* --------------------------------------- the two delivery loops, run directly

\* The transport's answers when the loops are run on their own.
ProbeScripts == [1..(MaxProbeRetries + 1) -> Outcomes]

\* One message is given to _publish_single_message and one envelope to
\* _send_to_dlq, and the transport answers both by the same script; each
\* loop appends to its history when it delivers.
DeliveryProbe ==
    /\ next_id <= MaxItems
    /\ \E script \in ProbeScripts :
          LET p == PublishSingleMessage(script, max_retries)
              d == SendToDlq(script, max_retries)
          IN /\ probe' = Some([script |-> script, k |-> LeadingTransients(script, 1),
                                term |-> FirstOther(script), publisher |-> p, dlq |-> d])
             /\ IF p.delivered
                THEN /\ published_messages' = Append(published_messages,
                            [message_id |-> next_id, item |-> [src |-> 1]])
                     /\ next_id' = next_id + 1
                ELSE UNCHANGED <<published_messages, next_id>>
             /\ dlq_messages' =
                   IF d.delivered
                   THEN Append(dlq_messages, [envelope |-> Len(dlq_messages) + 1,
                                              error_type |-> "test_error",
                                              sent_at |-> clock])
                   ELSE dlq_messages
    /\ NoCall
    /\ UNCHANGED <<sender_call, dlq_log, clock, shared_vars, pure_vars, digest_vars>>
    /\ dlq_stats' = NoValue
    /\ recent' = NoValue
    /\ UNCHANGED <<pub_pc, pub_items, pub_idx, published_ids, failed_count, pub_result>>
    /\ UNCHANGED <<multi_vars, cfg_vars, csv_vars, pf_vars, evt_vars>>

\* ------------------------------------------ the histories, read and cleared

\* The four categories of the typed senders.
DlqCategories == <<"processing_error", "file_error", "validation_errors", "publishing_error">>

\* history[-limit:] for limit >= 0: the last `limit` entries, and, since -0
\* is 0, the whole history when limit is 0.
LastEntries(history, limit) ==
    IF limit = 0 \/ limit >= Len(history)
    THEN history
    ELSE SubSeq(history, Len(history) - limit + 1, Len(history))

\* Half an hour passes between two calls.
Tick ==
    /\ clock < MaxTicks * (Hour \div 2)
    /\ clock' = clock + (Hour \div 2)
    /\ dlq_stats' = NoValue
    /\ recent' = NoValue
    /\ sender_call' = NoValue
    /\ NoCall
    /\ UNCHANGED <<multi_vars, cfg_vars, csv_vars, pub_vars, dlq_vars, pf_vars, evt_vars,
                   probe>>
    /\ UNCHANGED <<shared_vars, pure_vars, digest_vars>>

\* clear_dlq_history: the history is emptied; what was sent stays sent.
ClearDlqHistory ==
    /\ dlq_messages' = <<>>
    /\ dlq_stats' = NoValue
    /\ recent' = NoValue
    /\ sender_call' = NoValue
    /\ NoCall
    /\ UNCHANGED <<dlq_log, clock, probe>>
    /\ UNCHANGED <<shared_vars, pure_vars, digest_vars>>
    /\ UNCHANGED <<multi_vars, cfg_vars, csv_vars, pub_vars, pf_vars, evt_vars>>

\* The answer of get_dlq_stats with only the first category of the history
\* counted.
DlqStatsFirstCategory(history, now) ==
    IF history = <<>>
    THEN [total_messages |-> 0, error_types |-> [t \in {} |-> 0], recent_count |-> 0]
    ELSE [total_messages |-> Len(history),
          error_types |->
              [t \in {history[1].error_type} |->
                  Cardinality({i \in DOMAIN history : history[i].error_type = t})],
          recent_count |->
              Cardinality({i \in DOMAIN history : history[i].sent_at > now - Hour})]

\* The answer of get_dlq_stats: zeros for an empty history, and otherwise its
\* length, the number of entries of each category in it, and the number of
\* entries sent after recent_threshold = now - 3600.
DlqStats(history, now) ==
    IF history = <<>>
    THEN [total_messages |-> 0, error_types |-> [t \in {} |-> 0], recent_count |-> 0]
    ELSE [total_messages |-> Len(history),
          error_types |->
              [t \in {history[i].error_type : i \in DOMAIN history} |->
                  Cardinality({i \in DOMAIN history : history[i].error_type = t})],
          recent_count |->
              Cardinality({i \in DOMAIN history : history[i].sent_at > now - Hour})]

\* get_dlq_stats is called: it reads the history and the clock.
GetDlqStats ==
    /\ UNCHANGED dlq_vars
    /\ dlq_stats' = Some([stats |-> DlqStats(dlq_messages, clock),
                          history |-> dlq_messages, now |-> clock,
                          after |-> dlq_messages'])
    /\ recent' = NoValue
    /\ sender_call' = NoValue
    /\ NoCall
    /\ UNCHANGED <<multi_vars, cfg_vars, csv_vars, pub_vars, pf_vars, evt_vars, clock,
                   probe>>
    /\ UNCHANGED <<shared_vars, pure_vars, digest_vars>>

\* get_published_messages(limit) is called.
GetPublishedMessages ==
    /\ UNCHANGED pub_vars
    /\ \E limit \in 0..MaxLimit :
          recent' = Some([of |-> "published_messages", limit |-> limit,
                          history |-> published_messages,
                          ret |-> LastEntries(published_messages, limit),
                          after |-> published_messages'])
    /\ dlq_stats' = NoValue
    /\ sender_call' = NoValue
    /\ probe' = NoValue
    /\ NoCall
    /\ UNCHANGED <<multi_vars, cfg_vars, csv_vars, dlq_vars, pf_vars, evt_vars, clock>>
    /\ UNCHANGED <<shared_vars, pure_vars, digest_vars>>

\* get_dlq_messages(limit) is called.
GetDlqMessages ==
    /\ UNCHANGED dlq_vars
    /\ \E limit \in 0..MaxLimit :
          recent' = Some([of |-> "dlq_messages", limit |-> limit,
                          history |-> dlq_messages,
                          ret |-> LastEntries(dlq_messages, limit),
                          after |-> dlq_messages'])
    /\ dlq_stats' = NoValue
    /\ sender_call' = NoValue
    /\ probe' = NoValue
    /\ NoCall
    /\ UNCHANGED <<multi_vars, cfg_vars, csv_vars, pub_vars, pf_vars, evt_vars, clock>>
    /\ UNCHANGED <<shared_vars, pure_vars, digest_vars>>

\* publish_batch_data is called on a publisher that has published before:
\* the history of the earlier calls is still there.
PublishAgain ==
    /\ pub_pc = "done"
    /\ next_id <= MaxPublished
    /\ \E items \in ItemSeqs : PublishBatchDataEnter(items)
    /\ topic_info' = NoValue
    /\ NoCall
    /\ UNCHANGED <<sender_call, probe, monitor_vars, shared_vars, pure_vars, amount_row,
                   constructed>>
    /\ UNCHANGED <<multi_vars, cfg_vars, csv_vars, dlq_vars, pf_vars, evt_vars>>

\* clear_message_history that keeps the newest entry.
ClearMessageHistoryKeepsNewest ==
    /\ pub_pc \in {"idle", "done"}
    /\ published_messages' = LastEntries(published_messages, 1)
    /\ topic_info' = NoValue
    /\ NoCall
    /\ UNCHANGED <<pub_pc, pub_items, pub_idx, published_ids, failed_count, pub_result, next_id>>
    /\ UNCHANGED <<sender_call, probe, monitor_vars, shared_vars, pure_vars, amount_row,
                   constructed>>
    /\ UNCHANGED <<multi_vars, cfg_vars, csv_vars, dlq_vars, pf_vars, evt_vars>>

\* clear_message_history, called between two calls of publish_batch_data:
\* the history is emptied; the ids the transport gave out stay given out.
ClearMessageHistory ==
    /\ pub_pc \in {"idle", "done"}
    /\ published_messages' = <<>>
    /\ topic_info' = NoValue
    /\ NoCall
    /\ UNCHANGED <<pub_pc, pub_items, pub_idx, published_ids, failed_count, pub_result, next_id>>
    /\ UNCHANGED <<sender_call, probe, monitor_vars, shared_vars, pure_vars, amount_row,
                   constructed>>
    /\ UNCHANGED <<multi_vars, cfg_vars, csv_vars, dlq_vars, pf_vars, evt_vars>>

\* get_topic_info, called between two calls of publish_batch_data.
GetTopicInfo ==
    /\ pub_pc \in {"idle", "done"}
    /\ topic_info' = Some([max_retries |-> max_retries,
                           published_count |-> Len(published_messages)])
    /\ NoCall
    /\ UNCHANGED pub_vars
    /\ UNCHANGED <<sender_call, probe, monitor_vars, shared_vars, pure_vars, amount_row,
                   constructed>>
    /\ UNCHANGED <<multi_vars, cfg_vars, csv_vars, dlq_vars, pf_vars, evt_vars>>

\* ----------------------- pool threads on the shared publisher and DLQ

\* What is left of the call of process_file a thread runs once record i of
\* its n records is dealt with: the next record, then send_publishing_error
\* if a record failed, then nothing.
AfterRecord(t) ==
    IF t.i < t.n THEN [t EXCEPT !.pc = "publish", !.i = t.i + 1]
    ELSE IF t.failed > 0 THEN [t EXCEPT !.pc = "dlq"]
    ELSE [t EXCEPT !.pc = "done"]

\* process_multiple_files submits process_file to the pool: each thread has
\* some records to publish through self.publisher.
SharedStart ==
    /\ th = <<>>
    /\ \E k \in 1..max_workers : \E n \in 1..MaxShared :
          th' = [w \in 1..k |-> [pc |-> "publish", i |-> 1, n |-> n, published |-> 0,
                                  failed |-> 0, dead_lettered |-> 0]]
    /\ NoCall
    /\ UNCHANGED <<multi_vars, cfg_vars, csv_vars, pub_vars, dlq_vars, pf_vars, evt_vars>>
    /\ UNCHANGED <<sender_call, probe, monitor_vars, pure_vars, digest_vars>>

\* A thread in _publish_single_message: the transport takes the record and
\* returns a message id, or the loop gives up and the record is failed.
ThreadPublish ==
    /\ \E w \in DOMAIN th :
          /\ th[w].pc = "publish"
          /\ \E delivered \in BOOLEAN :
                th' = [th EXCEPT ![w] =
                          IF delivered
                          THEN [@ EXCEPT !.pc = "track", !.published = @ + 1]
                          ELSE AfterRecord([@ EXCEPT !.failed = @ + 1])]
    /\ NoCall
    /\ UNCHANGED <<multi_vars, cfg_vars, csv_vars, pub_vars, dlq_vars, pf_vars, evt_vars>>
    /\ UNCHANGED <<sender_call, probe, monitor_vars, pure_vars, digest_vars>>

\* self.published_messages.append with an append that is lost when another
\* thread is appending too.
ThreadTrackLosesUpdate ==
    /\ \E w \in DOMAIN th :
          /\ th[w].pc = "track"
          /\ published_messages' =
                IF \E v \in DOMAIN th : v # w /\ th[v].pc = "track"
                THEN published_messages
                ELSE Append(published_messages,
                            [message_id |-> <<w, th[w].i>>, item |-> [src |-> th[w].i]])
          /\ th' = [th EXCEPT ![w] = AfterRecord(@)]
    /\ NoCall
    /\ UNCHANGED <<pub_pc, pub_items, pub_idx, published_ids, failed_count, pub_result,
                   next_id>>
    /\ UNCHANGED <<multi_vars, cfg_vars, csv_vars, dlq_vars, pf_vars, evt_vars>>
    /\ UNCHANGED <<sender_call, probe, monitor_vars, pure_vars, digest_vars>>

\* The thread tracks the publication: self.published_messages.append(...),
\* one call of list.append, which the interpreter runs as a whole.
ThreadTrack ==
    /\ \E w \in DOMAIN th :
          /\ th[w].pc = "track"
          /\ published_messages' =
                Append(published_messages,
                       [message_id |-> <<w, th[w].i>>, item |-> [src |-> th[w].i]])
          /\ th' = [th EXCEPT ![w] = AfterRecord(@)]
    /\ NoCall
    /\ UNCHANGED <<pub_pc, pub_items, pub_idx, published_ids, failed_count, pub_result,
                   next_id>>
    /\ UNCHANGED <<multi_vars, cfg_vars, csv_vars, dlq_vars, pf_vars, evt_vars>>
    /\ UNCHANGED <<sender_call, probe, monitor_vars, pure_vars, digest_vars>>

\* A thread in _send_to_dlq for its publishing_error envelope: the transport
\* takes it, or the loop gives up.
ThreadDlq ==
    /\ \E w \in DOMAIN th :
          /\ th[w].pc = "dlq"
          /\ \E delivered \in BOOLEAN :
                th' = [th EXCEPT ![w] =
                          IF delivered
                          THEN [@ EXCEPT !.pc = "track_dlq", !.dead_lettered = @ + 1]
                          ELSE [@ EXCEPT !.pc = "done"]]
    /\ NoCall
    /\ UNCHANGED <<multi_vars, cfg_vars, csv_vars, pub_vars, dlq_vars, pf_vars, evt_vars>>
    /\ UNCHANGED <<sender_call, probe, monitor_vars, pure_vars, digest_vars>>

\* The thread tracks the envelope: self.dlq_messages.append(...).
ThreadTrackDlq ==
    /\ \E w \in DOMAIN th :
          /\ th[w].pc = "track_dlq"
          /\ dlq_messages' =
                Append(dlq_messages, [envelope |-> w, error_type |-> "publishing_error",
                                      sent_at |-> clock])
          /\ th' = [th EXCEPT ![w].pc = "done"]
    /\ NoCall
    /\ UNCHANGED dlq_log
    /\ UNCHANGED <<multi_vars, cfg_vars, csv_vars, pub_vars, pf_vars, evt_vars>>
    /\ UNCHANGED <<sender_call, probe, monitor_vars, pure_vars, digest_vars>>

\* ------------------------------------------------- the column layouts

\* The CSV headers of the three schemas, in the order the schema modules list
\* them.
TRANSACTION_CSV_HEADERS ==
    <<"transaction_id", "customer_id", "amount", "currency", "transaction_type",
      "timestamp", "merchant_id", "description", "payment_method_type",
      "payment_method_last_four", "payment_method_provider", "location_country",
      "location_city", "location_postal_code">>

SHOP_CSV_HEADERS ==
    <<"shop_id", "name", "description", "category", "status", "owner_name",
      "owner_email", "owner_phone", "address_street", "address_city",
      "address_state", "address_postal_code", "address_country", "contact_phone",
      "contact_email", "contact_website", "business_hours_monday",
      "business_hours_tuesday", "business_hours_wednesday",
      "business_hours_thursday", "business_hours_friday", "business_hours_saturday",
      "business_hours_sunday", "registration_date", "last_updated">>

PRODUCT_CSV_HEADERS ==
    <<"product_id", "sku", "name", "description", "category", "subcategory", "brand",
      "price_amount", "price_currency", "price_discount_amount",
      "price_discount_percentage", "inventory_quantity", "inventory_reserved",
      "inventory_warehouse_location", "dimensions_length", "dimensions_width",
      "dimensions_height", "dimensions_weight", "attributes_color",
      "attributes_size", "attributes_material", "attributes_style", "shop_id",
      "status", "images", "tags", "created_date", "last_updated">>

\* CSVProcessorConfig.MIN_HEADER_MATCH_COUNT.
MIN_HEADER_MATCH_COUNT == 5

Range(q) == {q[i] : i \in DOMAIN q}

\* The order in which the dictionaries all_headers and unique_headers are
\* built and enumerated.
TypeOrder == <<"transaction", "shop", "product">>

\* all_headers of _generate_unique_headers: the lower-cased headers of each
\* data type (the lists are written in lower case).
all_headers ==
    [t \in DataTypes |->
        IF t = "transaction" THEN Range(TRANSACTION_CSV_HEADERS)
        ELSE IF t = "shop" THEN Range(SHOP_CSV_HEADERS)
        ELSE Range(PRODUCT_CSV_HEADERS)]

\* _generate_unique_headers without the subtraction of the other types'
\* headers.
unique_headers_keeps_shared == all_headers

\* self.unique_headers = _generate_unique_headers(): for each data type the
\* headers of its list that are in no other type's list.
unique_headers ==
    [t \in DataTypes |->
        all_headers[t] \ UNION {all_headers[o] : o \in DataTypes \ {t}}]

\* A column of a file is a header name in some spelling; str.lower() gives
\* the name whatever the spelling.
Spellings == {"lower", "upper"}
Lower(column) == column[1]

\* What pd.read_csv(file_path, nrows=1) meets.
DetectStates == {"ok", "missing", "unparseable"}

\* The first step of the detection with the dictionary enumerated from its
\* last key to its first.
UniqueMatchLastKeyFirst(headers) ==
    LET hits == {i \in DOMAIN TypeOrder : headers \cap unique_headers[TypeOrder[i]] # {}}
    IN IF hits = {} THEN None
       ELSE TypeOrder[CHOOSE i \in hits : \A j \in hits : i >= j]

\* The first step of the detection: the first data type, in the order of
\* self.unique_headers, one of whose unique headers is among the headers;
\* None when there is none.
UniqueMatch(headers) ==
    LET hits == {i \in DOMAIN TypeOrder : headers \cap unique_headers[TypeOrder[i]] # {}}
    IN IF hits = {} THEN None
       ELSE TypeOrder[CHOOSE i \in hits : \A j \in hits : i <= j]

\* The fallback with the product list tried before the shop list.
FallbackMatchProductFirst(headers) ==
    IF Cardinality(headers \cap all_headers["transaction"]) > MIN_HEADER_MATCH_COUNT
    THEN "transaction"
    ELSE IF Cardinality(headers \cap all_headers["product"]) > MIN_HEADER_MATCH_COUNT
    THEN "product"
    ELSE IF Cardinality(headers \cap all_headers["shop"]) > MIN_HEADER_MATCH_COUNT
    THEN "shop"
    ELSE "transaction"

\* The fallback with a header list matched from the threshold on.
FallbackMatchFromThreshold(headers) ==
    IF Cardinality(headers \cap all_headers["transaction"]) >= MIN_HEADER_MATCH_COUNT
    THEN "transaction"
    ELSE IF Cardinality(headers \cap all_headers["shop"]) >= MIN_HEADER_MATCH_COUNT
    THEN "shop"
    ELSE IF Cardinality(headers \cap all_headers["product"]) >= MIN_HEADER_MATCH_COUNT
    THEN "product"
    ELSE "transaction"

\* The fallback: the full header lists of transaction, shop and product are
\* tried in this order, a list matching when more than MIN_HEADER_MATCH_COUNT
\* of its headers are among the headers; transaction when none matches.
FallbackMatch(headers) ==
    IF Cardinality(headers \cap all_headers["transaction"]) > MIN_HEADER_MATCH_COUNT
    THEN "transaction"
    ELSE IF Cardinality(headers \cap all_headers["shop"]) > MIN_HEADER_MATCH_COUNT
    THEN "shop"
    ELSE IF Cardinality(headers \cap all_headers["product"]) > MIN_HEADER_MATCH_COUNT
    THEN "product"
    ELSE "transaction"

\* _detect_data_type without its except clause: a failing read is raised.
DetectDataTypeRaises(fs, columns) ==
    IF fs # "ok" THEN "raise"
    ELSE LET headers == {Lower(c) : c \in columns}
         IN IF UniqueMatch(headers) # None THEN UniqueMatch(headers)
            ELSE FallbackMatch(headers)

\* _detect_data_type on a file in state fs whose first line has the given
\* columns: transaction when the read raises, and otherwise the unique-header
\* match or, without one, the fallback.
DetectDataType(fs, columns) ==
    IF fs # "ok" THEN "transaction"
    ELSE LET headers == {Lower(c) : c \in columns}
         IN IF UniqueMatch(headers) # None THEN UniqueMatch(headers)
            ELSE FallbackMatch(headers)

\* The header names of the files under study: any of the headers that are in
\* more than one list, with headers no list has, and with either one header
\* that is in one list only or some of the first such headers of each list.
SharedHeaders ==
    {h \in UNION {all_headers[t] : t \in DataTypes} :
        Cardinality({t \in DataTypes : h \in all_headers[t]}) > 1}

ForeignHeaders == Range(SubSeq(<<"unknown_header1", "unknown_header2", "unknown_header3">>,
                               1, MaxForeign))

OwnHeaders(list) ==
    SelectSeq(list, LAMBDA h : Cardinality({t \in DataTypes : h \in all_headers[t]}) = 1)

OwnSample ==
    UNION {Range(SubSeq(OwnHeaders(list), 1, MaxOwnDrawn)) :
              list \in {TRANSACTION_CSV_HEADERS, SHOP_CSV_HEADERS, PRODUCT_CSV_HEADERS}}

HeaderDraws ==
    {s \cup u \cup f :
        s \in SUBSET SharedHeaders,
        u \in (SUBSET OwnSample) \cup
              {{h} : h \in UNION {all_headers[t] : t \in DataTypes} \ SharedHeaders},
        f \in SUBSET ForeignHeaders}

\* A caller invokes _detect_data_type on a file; a file that cannot be read
\* yields no columns.
DetectCall ==
    /\ detected = NoValue
    /\ \E fs \in DetectStates, spelling \in Spellings :
       \E names \in IF fs = "ok" THEN HeaderDraws ELSE {{}} :
          LET columns == {<<n, spelling>> : n \in names}
          IN detected' = Some([fs |-> fs, columns |-> columns,
                               ret |-> DetectDataType(fs, columns)])
    /\ NoCall
    /\ UNCHANGED <<multi_vars, cfg_vars, csv_vars, pub_vars, dlq_vars, pf_vars, evt_vars>>
    /\ UNCHANGED <<sender_call, probe, monitor_vars, shared_vars, csv_runs, digest_vars>>

\* ------------------------------------------------- the decimal guard

\* CSVProcessorConfig.TRANSACTION_DECIMAL_PLACES.
TRANSACTION_DECIMAL_PLACES == 2
\* f"{amount:.{valid_decimal_places + 5}f}": the places the guard formats
\* beyond those it allows.
ExtraFormatPlaces == 5
\* "minimum": 0.01 of the amount in TRANSACTION_SCHEMA, in hundredths, and
\* its "maximum": 1000000.00.
AmountMinimumHundredths == 1
AmountMaximum == 1000000

\* The amount cell of a row: a decimal numeral, its whole part a number and
\* its fractional part a sequence of digits. A digit 5 is left out: right
\* after the last formatted place it would be a tie, and on which side of
\* a tie float(text) lies depends on the binary expansion.
Digits == {0, 1, 9}
AmountUnits == {0, 25, 99}
FracSeqs == UNION {[1..n -> Digits] : n \in 0..MaxFracDigits}
Amounts == [units : AmountUnits, frac : FracSeqs]

\* The k-th fractional digit of the numeral, 0 beyond its end.
DigitAt(amount, k) == IF k \in DOMAIN amount.frac THEN amount.frac[k] ELSE 0

\* The amount cut after k fractional places, as a whole number of 10^-k.
RECURSIVE Truncated(_, _)
Truncated(amount, k) ==
    IF k = 0 THEN amount.units
    ELSE 10 * Truncated(amount, k - 1) + DigitAt(amount, k)

\* amount == 0 for the float of the numeral.
IsZero(amount) == amount.units = 0 /\ \A k \in DOMAIN amount.frac : amount.frac[k] = 0

\* f"{amount:.{k}f}": the float of the numeral rounded to k fractional
\* places, as a whole number of 10^-k. The float is within 10^-10 of the
\* numeral for the amounts drawn, so it rounds as the numeral does.
Formatted(amount, k) ==
    Truncated(amount, k) + (IF DigitAt(amount, k + 1) >= 5 THEN 1 ELSE 0)

\* len(decimal_part) after .rstrip("0").rstrip("."): the fractional places
\* of the k-place numeral n that are left once its trailing zeros are cut.
RECURSIVE PlacesLeft(_, _)
PlacesLeft(n, k) ==
    IF k = 0 THEN 0
    ELSE IF n % 10 = 0 THEN PlacesLeft(n \div 10, k - 1)
    ELSE k

\* _validate_amount_decimals for the float the transformer made of the cell.
ValidateAmountDecimals(amount, valid_decimal_places) ==
    IF IsZero(amount) THEN TRUE
    ELSE LET k == valid_decimal_places + ExtraFormatPlaces
         IN PlacesLeft(Formatted(amount, k), k) <= valid_decimal_places

\* validate(instance, TRANSACTION_SCHEMA) for a row whose other fields
\* meet the schema: the amount within its minimum and maximum.
AmountInRange(amount) ==
    /\ Truncated(amount, 2) >= AmountMinimumHundredths
    /\ \/ amount.units < AmountMaximum
       \/ amount.units = AmountMaximum /\ \A k \in DOMAIN amount.frac : amount.frac[k] = 0

\* _process_batch on a frame of one transaction row: <<batch_data,
\* batch_errors>>, the error entry with the kind of its message.
ProcessTransactionRow(amount, batch_offset) ==
    IF ~ValidateAmountDecimals(amount, TRANSACTION_DECIMAL_PLACES)
    THEN <<<<>>, <<[row |-> batch_offset + 1, error |-> "more_than_2_decimal_places",
                    data |-> amount]>>>>
    ELSE IF ~AmountInRange(amount)
    THEN <<<<>>, <<[row |-> batch_offset + 1, error |-> "schema", data |-> amount]>>>>
    ELSE <<<<[amount |-> amount]>>, <<>>>>

\* A test calls _process_batch with one transaction row.
AmountRow ==
    /\ amount_row = NoValue
    /\ \E amount \in Amounts :
          LET res == ProcessTransactionRow(amount, 0)
          IN amount_row' = Some([amount |-> amount,
                                 guard |-> ValidateAmountDecimals(amount,
                                                                  TRANSACTION_DECIMAL_PLACES),
                                 data |-> res[1], errors |-> res[2]])
    /\ NoCall
    /\ UNCHANGED <<multi_vars, cfg_vars, csv_vars, pub_vars, dlq_vars, pf_vars, evt_vars>>
    /\ UNCHANGED <<sender_call, probe, monitor_vars, shared_vars, pure_vars, topic_info,
                   constructed>>

\* ------------------------------------------------------ the constructors

\* The encodings a configuration names: a text of blanks and letters, or a
\* value that is no str (None).
Chars == {" ", "u"}
Encodings ==
    {[is_str |-> FALSE, text |-> <<>>]}
    \cup {[is_str |-> TRUE, text |-> t] :
             t \in UNION {[1..n -> Chars] : n \in 0..MaxEncodingLen}}

\* encoding.strip(): the text without its leading and trailing blanks.
RECURSIVE Strip(_)
Strip(text) ==
    IF text = <<>> THEN <<>>
    ELSE IF Head(text) = " " THEN Strip(Tail(text))
    ELSE IF text[Len(text)] = " " THEN Strip(SubSeq(text, 1, Len(text) - 1))
    ELSE text

\* The checks of CSVProcessor.__init__ with `<` for `<=`: a window of no
\* rows is accepted.
CSVProcessorInitAcceptsZero(bs, encoding) ==
    IF bs < 0 THEN "ValueError"
    ELSE IF ~encoding.is_str \/ Strip(encoding.text) = <<>> THEN "ValueError"
    ELSE None

\* The two checks CSVProcessor.__init__ starts with: what it raises, None
\* when it goes on to build the processor.
CSVProcessorInit(bs, encoding) ==
    IF bs <= 0 THEN "ValueError"
    ELSE IF ~encoding.is_str \/ Strip(encoding.text) = <<>> THEN "ValueError"
    ELSE None

\* BatchProcessor(config): the GCS handler is built, then the CSVProcessor
\* with config's batch_size and default_encoding; an exception of its
\* __init__ leaves the constructor of BatchProcessor, and there is no
\* processor, publisher or DLQ to call.
NewBatchProcessor ==
    /\ constructed = NoValue
    /\ \E bs \in (0 - 1)..MaxBatch, encoding \in Encodings :
          LET raised == CSVProcessorInit(bs, encoding)
          IN /\ constructed' = Some([batch_size |-> bs, encoding |-> encoding,
                                      raised |-> raised])
             /\ batch_size' = IF raised = None THEN bs ELSE batch_size
    /\ NoCall
    /\ UNCHANGED <<max_retries, multi_vars, csv_vars, pub_vars, dlq_vars, pf_vars, evt_vars>>
    /\ UNCHANGED <<sender_call, probe, monitor_vars, shared_vars, pure_vars, topic_info,
                   amount_row>>

\* A BatchProcessor was built.
Constructed == \E c \in constructed : c.raised = None

\* The processor that was built is used: process_csv_file on staged files.
UseCsvProcessor == Constructed /\ (CsvCall \/ CsvBatch \/ CsvReturn)

\* ----------------------------------------------------------------- system

\* Nothing has been called yet: every service is idle, every history empty.
Idle ==
    /\ csv_pc = "idle"
    /\ rows = <<>>
    /\ data_type = None
    /\ total_rows = 0
    /\ batch_start = 0
    /\ processed_data = <<>>
    /\ errors = <<>>
    /\ csv_result = NoValue
    /\ pub_pc = "idle"
    /\ pub_items = <<>>
    /\ pub_idx = 0
    /\ published_ids = <<>>
    /\ failed_count = 0
    /\ pub_result = NoValue
    /\ published_messages = <<>>
    /\ next_id = 1
    /\ dlq_messages = <<>>
    /\ dlq_log = <<>>
    /\ pub_call = NoValue
    /\ dlq_call = NoValue
    /\ pf_pc = "idle"
    /\ local_file_path = None
    /\ file_metadata = None
    /\ handed = NoValue
    /\ publishing_result = NoValue
    /\ pf_fault = None
    /\ pf_result = NoValue
    /\ trace = <<>>
    /\ cleanup_ret = None
    /\ evt_pc = "idle"
    /\ evt_result = NoValue
    /\ event_data = NoValue
    /\ file_list = <<>>
    /\ fut = <<>>
    /\ fut_outcome = <<>>
    /\ worker = [w \in 1..max_workers |-> 0]
    /\ results = <<>>
    /\ multi_pc = "idle"
    /\ late = {}
    /\ multi_result = NoValue
    /\ sender_call = NoValue
    /\ probe = NoValue
    /\ clock = 0
    /\ dlq_stats = NoValue
    /\ recent = NoValue
    /\ topic_info = NoValue
    /\ amount_row = NoValue
    /\ constructed = NoValue
    /\ th = <<>>
    /\ csv_runs = NoValue
    /\ detected = NoValue

\* The state after construction, for the windows and retry budgets
\* under study and the default pool.
Init ==
    /\ batch_size \in 1..MaxBatch
    /\ max_retries \in 0..MaxRetriesBound
    /\ max_workers = DefaultMaxWorkers
    /\ Idle

\* The state after construction, for the pools under study and the
\* default window and retry budget.
InitMulti ==
    /\ batch_size = DefaultBatchSize
    /\ max_retries = DefaultMaxRetries
    /\ max_workers \in 1..MaxWorkers
    /\ Idle

\* The state after construction, for the retry budgets for which the
\* delivery loops are run on their own.
InitDelivery ==
    /\ batch_size = DefaultBatchSize
    /\ max_retries \in 0..MaxProbeRetries
    /\ max_workers = DefaultMaxWorkers
    /\ Idle

\* process_csv_file called on its own.
NextCsv == CsvCall \/ CsvBatch \/ CsvReturn

SpecCsv == Init /\ [][NextCsv]_vars

\* process_csv_file on one source under two window sizes.
NextWindows == CsvTwoWindowSizes

SpecWindows == Init /\ [][NextWindows]_vars

\* publish_batch_data called on its own.
NextPub == PubCall \/ PubRecord \/ PubReturn

SpecPub == Init /\ [][NextPub]_vars

\* One publisher through calls of publish_batch_data, clear_message_history
\* and get_topic_info.
NextHistory ==
    \/ PubCall \/ PubRecord \/ PubReturn \/ PublishAgain
    \/ ClearMessageHistory \/ GetTopicInfo

SpecHistory == Init /\ [][NextHistory]_vars

\* One storage event through process_gcs_event and process_file.
NextFile ==
    \/ EvtStart \/ PfDownload \/ PfMetadata \/ PfCsvCall \/ CsvBatch \/ CsvReturn
    \/ PfValidationErrors \/ PfPublishCall \/ PubRecord \/ PubReturn
    \/ PfPublishReturn \/ PfCleanup \/ PfExcept \/ EvtReturn

SpecFile == Init /\ [][NextFile]_vars

\* The typed senders of the DeadLetterQueue called on their own.
NextDlq == SendProcessingError \/ SendFileError \/ SendValidationErrors \/ SendPublishingError

SpecDlq == Init /\ [][NextDlq]_vars

\* The delivery loops of the publisher and of the DLQ run on their own, and
\* the two histories read.
NextDelivery == DeliveryProbe \/ GetPublishedMessages \/ GetDlqMessages

SpecDelivery == InitDelivery /\ [][NextDelivery]_vars

\* The state after construction with the defaults.
InitStats ==
    /\ batch_size = DefaultBatchSize
    /\ max_retries = DefaultMaxRetries
    /\ max_workers = DefaultMaxWorkers
    /\ Idle

\* The typed senders, clear_dlq_history and get_dlq_stats called over time.
NextStats ==
    \/ SendProcessingError \/ SendFileError \/ SendValidationErrors \/ SendPublishingError
    \/ ClearDlqHistory \/ GetDlqStats \/ Tick

SpecStats == InitStats /\ [][NextStats]_vars

\* The constructor of BatchProcessor, and the processor it built at work.
NextConstruct == NewBatchProcessor \/ UseCsvProcessor

SpecConstruct == InitStats /\ [][NextConstruct]_vars

\* _process_batch called on its own with one transaction row.
NextAmount == AmountRow

SpecAmount == InitStats /\ [][NextAmount]_vars

\* _detect_data_type called on its own.
NextDetect == DetectCall

SpecDetect == InitStats /\ [][NextDetect]_vars

\* Pool threads publishing and dead-lettering through the shared services.
NextShared ==
    SharedStart \/ ThreadPublish \/ ThreadTrack \/ ThreadDlq \/ ThreadTrackDlq

SpecShared == InitMulti /\ [][NextShared]_vars

\* process_multiple_files on a list of items, each run by a pool thread.
NextMulti ==
    \/ MultiCall \/ WorkerTake \/ WorkerFinish \/ Collect \/ Timeout
    \/ MultiRaise \/ MultiReturn

SpecMulti == InitMulti /\ [][NextMulti]_vars

\* The same with the scheduling the pool gives: an idle thread takes queued
\* work, and a call of process_file comes to its end.
SpecMultiFair == SpecMulti /\ WF_vars(WorkerTake) /\ WF_vars(WorkerFinish)

\* ----------------------------------------------------------------- claims

Last(q) == q[Len(q)]

\* How often the source row i occurs in a list of records / of error entries.
InData(d, i) == Cardinality({j \in DOMAIN d : d[j].src = i})
InErrors(e, i) == Cardinality({j \in DOMAIN e : e[j].data = i})

\* C1: once process_csv_file has fully read a source of N rows, every row is
\* in exactly one of data and errors: total_rows = N = len(data) + len(errors),
\* processed_rows = len(data), error_count = len(errors).
C1_RowsPartitioned ==
    \A res \in csv_result :
        res.read_ok =>
            /\ res.total_rows = Len(rows)
            /\ res.total_rows = Len(res.data) + Len(res.errors)
            /\ res.processed_rows = Len(res.data)
            /\ res.error_count = Len(res.errors)
            /\ \A i \in 1..Len(rows) : InData(res.data, i) + InErrors(res.errors, i) = 1

\* A fully read file of several windows, the last one short, with valid and
\* failing rows of both kinds.
C1_Witness ==
    \E res \in csv_result :
        /\ res.read_ok
        /\ Len(rows) = 3
        /\ batch_size = 2
        /\ \E i, j, k \in 1..Len(rows) :
              rows[i] = "ok" /\ rows[j] = "invalid" /\ rows[k] = "crash"

\* C2: when the transport raises a transient error on the first K send
\* attempts, K <= max_retries, and succeeds on attempt K+1,
\* _publish_single_message returns the delivered message id after exactly K+1
\* send invocations.
C2_RetryThenSuccess ==
    \A c \in pub_call :
        (c.term = "ok" /\ c.k <= max_retries) =>
            /\ c.delivered
            /\ c.sends = c.k + 1
            /\ c.ret # 0
            /\ published_messages # <<>>
            /\ Last(published_messages).message_id = c.ret

\* A delivery on the last attempt the configuration allows, after retries.
C2_Witness ==
    \E c \in pub_call :
        c.term = "ok" /\ c.k = max_retries /\ c.k >= 1 /\ c.delivered

\* C3: _publish_single_message never makes more than max_retries + 1 send
\* attempts, and when every attempt fails with a transient error it makes
\* exactly max_retries + 1 attempts and returns None.
C3_BoundedAttempts ==
    \A c \in pub_call :
        /\ c.sends <= max_retries + 1
        /\ c.k > max_retries => (c.sends = max_retries + 1 /\ ~c.delivered /\ c.ret = 0)

\* Retries exhausted: every allowed attempt failed with a transient error.
C3_Witness ==
    \E c \in pub_call :
        c.k > max_retries /\ max_retries >= 1 /\ c.sends = max_retries + 1 /\ ~c.delivered

\* C4: a non-transient exception on a send attempt aborts the call at once:
\* no further attempt and no backoff sleep follow it, the call returns None
\* and publish_batch_data counts the record as failed.
C4_FatalAborts ==
    [][\A c \in pub_call' :
          (c.term = "fatal" /\ c.k <= max_retries) =>
              /\ ~c.delivered
              /\ c.ret = 0
              /\ c.sends = c.k + 1
              /\ Len(c.sleeps) = c.k
              /\ failed_count' = failed_count + 1
              /\ published_ids' = published_ids
              /\ published_messages' = published_messages]_vars

\* A fatal error met after a transient one, with attempts still allowed.
C4_Witness ==
    \E c \in pub_call :
        c.term = "fatal" /\ c.k >= 1 /\ c.k < max_retries /\ c.sends = c.k + 1

\* C5: publish_batch_data attempts every record, each as its own message,
\* whatever happens to the earlier ones; its result has published_count +
\* failed_count = number of records, len(message_ids) = published_count and
\* success = (failed_count = 0); the empty list gives success, 0, 0, [].
C5_PublishBatchAccounting ==
    \A res \in pub_result :
        /\ pub_idx = Len(pub_items)
        /\ res.published_count + res.failed_count = Len(pub_items)
        /\ Len(res.message_ids) = res.published_count
        /\ res.success = (res.failed_count = 0)
        /\ pub_items = <<>> => res = EmptyPublishResult
        /\ \A i \in 1..Len(res.message_ids) :
              \E j \in DOMAIN published_messages :
                  published_messages[j].message_id = res.message_ids[i]

\* A batch whose first record fails and whose later record is delivered.
C5_Witness ==
    \E res \in pub_result :
        /\ Len(pub_items) = 2
        /\ res.failed_count = 1
        /\ res.published_count = 1
        /\ published_messages # <<>>
        /\ Last(published_messages).item = pub_items[2]

\* The envelopes of one category among those the typed senders built.
Envelopes(category) ==
    {i \in DOMAIN dlq_log : dlq_log[i].envelope.error_type = category}

\* How often a step occurs in the trace of process_file.
Count(step) == Cardinality({i \in DOMAIN trace : trace[i] = step})

\* C6: row-level validation errors do not abort the item: with a non-empty
\* error list exactly one validation_errors envelope is sent, carrying the
\* full error list and the detected data type, and the valid records are
\* still handed to the publisher; with an empty error list none is sent.
C6_ValidationErrorsRouted ==
    /\ pf_pc \in {"idle", "download", "metadata", "csv", "csv_wait"} =>
          Envelopes("validation_errors") = {}
    /\ \A pd \in csv_result :
          /\ pf_pc \in {"publish", "publish_wait", "cleanup", "except", "done"} =>
                IF pd.errors # <<>>
                THEN /\ Cardinality(Envelopes("validation_errors")) = 1
                     /\ \A i \in Envelopes("validation_errors") :
                           /\ dlq_log[i].envelope.validation_errors = pd.errors
                           /\ dlq_log[i].envelope.data_type = pd.data_type
                ELSE Envelopes("validation_errors") = {}
          /\ (pf_pc \in {"publish_wait", "cleanup", "except", "done"} /\ pd.data # <<>>) =>
                handed = Some(pd.data)
          /\ (pf_pc = "done" /\ pf_fault = None) =>
                \A r \in pf_result : r.success

\* A file with a failing and a valid row: the envelope is sent, its
\* delivery fails, and the valid record is published all the same.
C6_Witness ==
    /\ pf_pc = "done"
    /\ \E pd \in csv_result :
          /\ pd.read_ok /\ Len(pd.errors) = 1 /\ Len(pd.data) = 1
          /\ handed = Some(pd.data)
    /\ \E i \in Envelopes("validation_errors") : ~dlq_log[i].delivered
    /\ \E r \in pf_result : r.success
    /\ Len(published_messages) = 1

\* C7: when download_file returns no local path, exactly one file_error
\* envelope is sent, the download is not retried, no later step runs (no
\* metadata lookup, no CSV processing, no publish) and the result has
\* success False.
C7_DownloadFailureStops ==
    (pf_pc = "done" /\ local_file_path = None) =>
        /\ trace = <<"download", "send_file_error">>
        /\ Len(dlq_log) = 1
        /\ dlq_log[1].envelope.error_type = "file_error"
        /\ dlq_log[1].envelope.local_path = None
        /\ file_metadata = None
        /\ csv_pc = "idle" /\ csv_result = NoValue
        /\ pub_pc = "idle" /\ handed = NoValue
        /\ \A r \in pf_result : ~r.success /\ r.error = "download_failed"
        /\ pf_result # NoValue

\* The download failed and the event has returned the failure.
C7_Witness ==
    /\ pf_pc = "done"
    /\ local_file_path = None
    /\ evt_pc = "done"
    /\ \E r \in evt_result : ~r.success /\ r.error = "download_failed"

\* C8: exactly one publishing_error envelope, carrying the publish outcome
\* summary, is sent if and only if the publish step reports success False
\* or failed_count > 0; none is sent when every valid record was published
\* or when there were no valid records to publish.
PublishReportsFailure ==
    /\ pub_pc = "done"
    /\ \E pr \in pub_result : ~pr.success \/ pr.failed_count > 0

C8_PublishingErrorRouted ==
    /\ pf_pc \notin {"cleanup", "done"} => Envelopes("publishing_error") = {}
    /\ pf_pc \in {"cleanup", "done"} =>
          /\ Cardinality(Envelopes("publishing_error")) = (IF PublishReportsFailure THEN 1 ELSE 0)
          /\ \A i \in Envelopes("publishing_error") :
                dlq_log[i].envelope.publishing_result = pub_result

\* A partial failure: one record published, one failed, one envelope.
C8_Witness ==
    /\ pf_pc = "done"
    /\ Cardinality(Envelopes("publishing_error")) = 1
    /\ \E pr \in pub_result : pr.published_count = 1 /\ pr.failed_count = 1

\* C9 as stated: an unexpected exception at any step of the single-item
\* pipeline, in process_gcs_event or in process_file after the fetch, is
\* routed to the DLQ as a processing_error envelope and the result has
\* success False.
C9_ExceptionIsProcessingError ==
    /\ \A r \in evt_result :
          r.error = "event_exception" =>
              ~r.success /\ Envelopes("processing_error") # {}
    /\ \A r \in pf_result :
          r.error = "file_exception" =>
              ~r.success /\ Envelopes("processing_error") # {}

\* C9 as the code has it: an exception in process_gcs_event outside
\* process_file is routed as one processing_error envelope; an exception in
\* process_file after the fetch is routed as one file_error envelope that
\* carries the staged path and the exception, and as no processing_error
\* envelope; in both cases the result has success False.
C9_ExceptionsRouted ==
    /\ \A r \in evt_result :
          r.error = "event_exception" =>
              /\ ~r.success
              /\ Cardinality(Envelopes("processing_error")) = 1
              /\ Len(dlq_log) = 1
    /\ \A r \in pf_result :
          r.error = "file_exception" =>
              /\ ~r.success
              /\ pf_fault \in {"metadata", "csv", "publish"}
              /\ Cardinality(Envelopes("file_error")) = 1
              /\ \A i \in Envelopes("file_error") :
                    /\ dlq_log[i].envelope.exception = pf_fault
                    /\ dlq_log[i].envelope.local_path = local_file_path
                    /\ i = Len(dlq_log)
              /\ Envelopes("processing_error") = {}
    /\ (pf_pc = "done" /\ pf_fault # None) =>
          \E r \in pf_result : r.error = "file_exception"

\* The publish call raised, after the row errors had been sent.
C9_Witness ==
    /\ pf_pc = "done"
    /\ pf_fault = "publish"
    /\ Envelopes("validation_errors") # {}
    /\ \E r \in pf_result : r.error = "file_exception"

\* C10: whenever the download produced a local path, cleanup_file is called
\* on it exactly once before process_file returns, on the success path, with
\* validation or publish failures, and on the exception path.
C10_CleanupExactlyOnce ==
    /\ Count("cleanup") <= 1
    /\ (pf_pc = "done" /\ local_file_path # None) => Count("cleanup") = 1

\* process_file returned from its except branch with the staged file cleaned.
C10_Witness ==
    /\ pf_pc = "done"
    /\ local_file_path # None
    /\ pf_fault = "csv"
    /\ Count("cleanup") = 1

\* C11: process_file never lets an exception escape to its caller: whatever
\* fails (download, metadata lookup, CSV processing, publishing, DLQ delivery,
\* cleanup), the call ends with a result that has a boolean success, so a
\* future of process_multiple_files always yields a result.
C11_NoExceptionEscapes ==
    /\ pf_pc # "raised"
    /\ pf_pc = "done" =>
          /\ pf_result # NoValue
          /\ \A r \in pf_result :
                /\ r.success \in BOOLEAN
                /\ r.success = (local_file_path # None /\ pf_fault = None)

\* The publish call raised, cleanup_file then failed to remove the staged
\* file and the file error could not be delivered: a result all the same.
C11_Witness ==
    /\ pf_pc = "done"
    /\ pf_fault = "publish"
    /\ cleanup_ret = "False"
    /\ dlq_log # <<>>
    /\ ~Last(dlq_log).delivered
    /\ \E r \in pf_result : ~r.success

\* The results process_file gave for the items of the list, by item.
ItemResult(i) == The(fut_outcome[i]).result

\* C12: for a list of N items process_multiple_files returns success exactly
\* when every item's result has success True; processed_files = N,
\* successful_files + failed_files = N, and the two totals are the sums of
\* processed_rows and published_count over the item results. The empty list
\* gives success True and processed_files 0 and starts no worker.
C12_AggregateSummary ==
    \A res \in multi_result :
        IF file_list = <<>>
        THEN /\ res = [success |-> TRUE, processed_files |-> 0, results |-> <<>>]
             /\ fut = <<>>
             /\ \A w \in DOMAIN worker : worker[w] = 0
        ELSE LET N == Len(file_list)
             IN /\ res.success = (\A i \in 1..N : ItemResult(i).success)
                /\ res.processed_files = N
                /\ res.successful_files + res.failed_files = N
                /\ res.successful_files = Cardinality({i \in 1..N : ItemResult(i).success})
                /\ res.total_records_processed =
                      Sum([i \in 1..N |-> ProcessedRowsOf(The(fut_outcome[i]))])
                /\ res.total_records_published =
                      Sum([i \in 1..N |-> PublishedCountOf(The(fut_outcome[i]))])
                /\ Len(res.results) = N

\* Three items on two workers: one fails, two succeed with different
\* counts, and the results come in another order than the list.
C12_Witness ==
    \E res \in multi_result :
        /\ Len(file_list) = 3
        /\ max_workers = 2
        /\ ~res.success
        /\ res.successful_files = 2
        /\ res.failed_files = 1
        /\ res.total_records_processed = 3
        /\ res.total_records_published = 2
        /\ res.results[1].file_info = 2

\* C13: every item that has not completed when processing_timeout elapses is
\* reported in the returned aggregate as a failed item, and the call still
\* returns the aggregate summary instead of raising.
C13_TimeoutReported ==
    /\ multi_pc # "raised"
    /\ (late # {} /\ multi_pc \notin {"collect", "shutdown"}) =>
          /\ multi_pc = "done"
          /\ \A res \in multi_result :
                \A i \in late :
                    \E j \in DOMAIN res.results :
                        /\ res.results[j].file_info = i
                        /\ ~res.results[j].result.success

\* The pool threads running the item i.
RunnersOf(i) == {w \in DOMAIN worker : worker[w] = i}

\* C14: during process_multiple_files never more than max_workers items run
\* the single-item pipeline at once; each item is run by exactly one worker
\* (one thread while it runs, none before or after, and it is never started
\* a second time); and every submitted item is eventually started.
C14_BoundedPool ==
    /\ [](/\ Cardinality(Running) <= max_workers
          /\ \A i \in DOMAIN fut :
                Cardinality(RunnersOf(i)) = (IF fut[i] = "running" THEN 1 ELSE 0))
    /\ [][\A i \in DOMAIN fut :
             /\ fut[i] # "pending" => fut'[i] # "pending"
             /\ fut[i] = "finished" => fut'[i] = "finished" /\ RunnersOf(i)' = {}]_vars
    /\ \A i \in 1..MaxFiles :
          (i \in DOMAIN fut) ~> (i \in DOMAIN fut /\ fut[i] # "pending")

\* More items than workers: the pool is full and the last item waits.
C14_Witness ==
    /\ Len(file_list) = 3
    /\ max_workers = 2
    /\ Cardinality(Running) = 2
    /\ fut[3] = "pending"
    /\ fut[1] = "running"

\* C15: the row number recorded for a failing row is offset + local_index + 1,
\* the row's 1-indexed position in the whole file, in the first and in every
\* later window, whatever the batch_size.
C15_RowNumberIsFilePosition ==
    \A j \in DOMAIN errors : errors[j].row = errors[j].data

\* The error entries recorded for the source row i.
ErrorsOf(i) == {j \in DOMAIN errors : errors[j].data = i}

\* C16: a row whose transformation, decimal guard or schema validation raises
\* yields exactly one error entry, which carries that row, and no record; every
\* other row, in the same window and in later ones, has the outcome its own
\* content gives it: a valid row one record and no error entry, a row not
\* yet reached nothing.
C16_RowFailureIsolated ==
    (csv_pc \in {"batches", "done"} /\ total_rows = Len(rows)) =>
        \A i \in 1..Len(rows) :
            IF i > batch_start
            THEN InData(processed_data, i) = 0 /\ ErrorsOf(i) = {}
            ELSE IF rows[i] = "ok"
            THEN InData(processed_data, i) = 1 /\ ErrorsOf(i) = {}
            ELSE /\ InData(processed_data, i) = 0
                 /\ Cardinality(ErrorsOf(i)) = 1
                 /\ \A j \in ErrorsOf(i) :
                       errors[j].error = (IF rows[i] = "crash" THEN "Processing error"
                                          ELSE "Schema validation error")

\* A row that raises, a valid row after it in the same window, and a row
\* that fails validation in the next window: one record, two error entries.
C16_Witness ==
    /\ csv_pc = "done"
    /\ batch_size = 2
    /\ rows = <<"crash", "ok", "invalid">>
    /\ Len(processed_data) = 1
    /\ Len(errors) = 2

\* The place of a step in the order of the pipeline.
Rank(step) ==
    CASE step = "download" -> 1
      [] step = "metadata" -> 2
      [] step = "csv" -> 3
      [] step = "send_validation_errors" -> 4
      [] step = "publish" -> 5
      [] step = "send_publishing_error" -> 6
      [] step = "cleanup" -> 7
      [] step = "send_file_error" -> 8

\* C17: process_file goes through fetch, type detection and row validation,
\* publish, cleanup in that order: nothing is published before the validation
\* of all rows is over, the validation_errors envelope (if any) is sent
\* before the first publish attempt, and the staged file is cleaned up only
\* after the last publish attempt.
C17_PipelineOrder ==
    /\ \A a, b \in DOMAIN trace : a < b => Rank(trace[a]) < Rank(trace[b])
    /\ (pub_pc # "idle" \/ published_messages # <<>>) =>
          /\ csv_pc = "done"
          /\ Count("csv") = 1
          /\ \A pd \in csv_result :
                pd.errors # <<>> => Cardinality(Envelopes("validation_errors")) = 1
    /\ pub_call # NoValue => Count("cleanup") = 0
    /\ Count("cleanup") > 0 => (pub_pc = "idle" \/ (pub_pc = "done" /\ pub_idx = Len(pub_items)))

\* The whole pipeline with row errors and a failed record: every step, in order.
C17_Witness ==
    /\ pf_pc = "done"
    /\ trace = <<"download", "metadata", "csv", "send_validation_errors", "publish",
                 "send_publishing_error", "cleanup">>
    /\ Len(pub_items) = 1
    /\ dlq_log[1].envelope.error_type = "validation_errors"

\* C18: _publish_single_message sleeps 2^attempt (attempt from 0) after each
\* transient failure that another attempt follows: K transient failures and
\* then a success give exactly the K sleeps 2^0, ..., 2^(K-1) in that order;
\* no sleep follows a successful attempt or the last failed attempt.
C18_ExponentialBackoff ==
    \A c \in probe :
        /\ Len(c.publisher.sleeps) = c.publisher.sends - 1
        /\ \A a \in DOMAIN c.publisher.sleeps : c.publisher.sleeps[a] = 2 ^ (a - 1)
        /\ (c.term = "ok" /\ c.k <= max_retries) =>
              (c.publisher.delivered /\ Len(c.publisher.sleeps) = c.k)
        /\ c.k > max_retries =>
              (~c.publisher.delivered /\ Len(c.publisher.sleeps) = max_retries)
        /\ (c.term = "fatal" /\ c.k <= max_retries) => Len(c.publisher.sleeps) = c.k

\* Three transient failures, then a success: the sleeps 1, 2 and 4.
C18_Witness ==
    \E c \in probe :
        /\ c.k = 3 /\ c.term = "ok"
        /\ c.publisher.delivered
        /\ c.publisher.sleeps = <<1, 2, 4>>

\* C19: each typed sender of the DeadLetterQueue returns True exactly when
\* the envelope was delivered (the transport took it within max_retries + 1
\* attempts, only transient errors before), and returns False, raising
\* nothing, when the retries are exhausted, when the transport raises a
\* non-transient error, and when building or sending the envelope raises.
C19_SendersReturnBool ==
    \A c \in sender_call :
        /\ ~c.raised
        /\ c.ret \in BOOLEAN
        /\ c.ret = (c.built /\ \E d \in c.sent : d.term = "ok" /\ d.k <= max_retries)
        /\ c.ret => (dlq_messages # <<>> /\ Last(dlq_messages).error_type = c.error_type)
        /\ c.built => (dlq_log # <<>> /\ Last(dlq_log).delivered = c.ret)

\* send_publishing_error gives up after max_retries + 1 transient errors.
C19_Witness ==
    \E c \in sender_call :
        /\ c.error_type = "publishing_error"
        /\ c.built /\ ~c.ret
        /\ max_retries >= 1
        /\ \E d \in c.sent : d.k > max_retries /\ d.sends = max_retries + 1

\* C20: _send_to_dlq follows the delivery discipline of
\* _publish_single_message: for every max_retries and every sequence of
\* transport outcomes both make the same number of send attempts, take the
\* same backoff sleeps in the same order, and both deliver or both fail.
C20_SameDeliveryDiscipline ==
    \A c \in probe :
        /\ c.dlq.sends = c.publisher.sends
        /\ c.dlq.sleeps = c.publisher.sleeps
        /\ c.dlq.delivered = c.publisher.delivered

\* Two transient errors and then a fatal one, with retries to spare: both
\* loops stop after the third attempt and the sleeps 1 and 2.
C20_Witness ==
    \E c \in probe :
        /\ max_retries = 3
        /\ c.k = 2 /\ c.term = "fatal"
        /\ c.dlq.sends = 3 /\ c.publisher.sends = 3
        /\ c.dlq.sleeps = <<1, 2>>
        /\ ~c.dlq.delivered /\ ~c.publisher.delivered

\* C21: after any sequence of typed sends and clear_dlq_history,
\* get_dlq_stats answers with total_messages equal to the length of the
\* history and to the sum of the per-category counts of error_types; every
\* counted category is one of processing_error, file_error,
\* validation_errors, publishing_error; recent_count (the entries of the
\* last hour) is at most total_messages; an empty history gives
\* total_messages 0, error_types {} and recent_count 0; and the call leaves
\* the history as it was.
C21_StatsConsistent ==
    \A c \in dlq_stats :
        LET e == c.stats.error_types
        IN /\ c.stats.total_messages = Len(c.history)
           /\ DOMAIN e \subseteq {DlqCategories[i] : i \in DOMAIN DlqCategories}
           /\ \A t \in DOMAIN e : e[t] >= 1
           /\ Sum([i \in DOMAIN DlqCategories |->
                      IF DlqCategories[i] \in DOMAIN e THEN e[DlqCategories[i]] ELSE 0])
                 = c.stats.total_messages
           /\ c.stats.recent_count <= c.stats.total_messages
           /\ c.history = <<>> =>
                 /\ c.stats.total_messages = 0
                 /\ DOMAIN e = {}
                 /\ c.stats.recent_count = 0
           /\ c.after = c.history

\* Two envelopes of different categories delivered an hour apart: the
\* statistics count one of each, and only the later one as recent.
C21_Witness ==
    \E c \in dlq_stats :
        /\ c.stats.total_messages = 2
        /\ Cardinality(DOMAIN c.stats.error_types) = 2
        /\ c.stats.recent_count = 1
        /\ c.now - c.history[1].sent_at = Hour

\* C22 as stated: every envelope built by a typed sender is appended to the
\* rolling history of the DLQ and a delivery attempt is made, so that each
\* sender call that built its envelope grows the history by exactly one
\* entry, whether the envelope was delivered, the retries were exhausted or
\* the transport raised a fatal error.
C22_HistoryGrowsEveryCall ==
    [][Len(dlq_log') > Len(dlq_log) => Len(dlq_messages') = Len(dlq_messages) + 1]_vars

\* C22, amended: a delivery attempt is made for every envelope built by a
\* typed sender, and the history grows by exactly one entry, of the
\* envelope's category, when the envelope is delivered; when the retries
\* are exhausted or the transport raises a fatal error the history is left
\* as it was.
C22_HistoryGrowsOnDelivery ==
    [][Len(dlq_log') > Len(dlq_log) =>
          /\ dlq_call' # NoValue
          /\ The(dlq_call').sends >= 1
          /\ Last(dlq_log').delivered = The(dlq_call').delivered
          /\ dlq_messages' =
                IF Last(dlq_log').delivered
                THEN Append(dlq_messages,
                            [envelope |-> Len(dlq_log'),
                             error_type |-> Last(dlq_log').envelope.error_type,
                             sent_at |-> clock])
                ELSE dlq_messages]_vars

\* A first envelope was delivered and tracked; the second met a fatal error
\* of the transport and the history still has the one entry.
C22_Witness ==
    /\ Len(dlq_log) = 2
    /\ dlq_log[1].delivered /\ ~dlq_log[2].delivered
    /\ Len(dlq_messages) = 1
    /\ \E c \in sender_call :
          c.built /\ ~c.ret /\ \E d \in c.sent : d.term = "fatal" /\ d.sends = 1

\* C23: for every history and every limit >= 0, get_published_messages(limit)
\* and get_dlq_messages(limit) return exactly the min(limit, len(history))
\* most recent entries, in the order they were appended, and leave the
\* history unchanged.
C23_RecentEntries ==
    \A c \in recent :
        LET n == Min(c.limit, Len(c.history))
        IN /\ c.ret = SubSeq(c.history, Len(c.history) - n + 1, Len(c.history))
           /\ c.after = c.history

\* The entries thread w appended to a history, by the field that names it.
PublishedBy(w) == {j \in DOMAIN published_messages : published_messages[j].message_id[1] = w}
DeadLetteredBy(w) == {j \in DOMAIN dlq_messages : dlq_messages[j].envelope = w}

\* C24: when several workers publish and dead-letter concurrently through
\* the shared BatchPublisher and DeadLetterQueue, no append to either history
\* is lost or duplicated under any interleaving: once all workers have
\* finished, published_messages holds as many entries as records were
\* delivered and dlq_messages as many as envelopes were delivered, each
\* worker's entries among them.
C24_NoLostAppend ==
    (th # <<>> /\ \A w \in DOMAIN th : th[w].pc = "done") =>
        /\ Len(published_messages) = Sum([w \in DOMAIN th |-> th[w].published])
        /\ Len(dlq_messages) = Sum([w \in DOMAIN th |-> th[w].dead_lettered])
        /\ \A w \in DOMAIN th :
              /\ Cardinality(PublishedBy(w)) = th[w].published
              /\ Cardinality(DeadLetteredBy(w)) = th[w].dead_lettered

\* Two threads have finished; the second tracked its record before the
\* first did, and both are in the history.
C24_Witness ==
    /\ Len(th) = 2
    /\ \A w \in DOMAIN th : th[w].pc = "done" /\ th[w].published = 1
    /\ Len(published_messages) = 2
    /\ published_messages[1].message_id[1] = 2
    /\ published_messages[2].message_id[1] = 1

\* A sequence of numbers that grows strictly.
Ascending(q) == \A i, j \in DOMAIN q : i < j => q[i] < q[j]

\* The record whose delivery got message id `id`.
ItemOf(id) ==
    (CHOOSE e \in {published_messages[j] : j \in DOMAIN published_messages} :
        e.message_id = id).item

\* C25: within one item the records of `data` are in increasing source-row
\* order and so are the entries of `errors`, within a window and from one
\* window to the next; publish_batch_data attempts the records in the order
\* of `data` and returns message_ids in that same order.
C25_SourceOrder ==
    /\ Ascending([j \in DOMAIN processed_data |-> processed_data[j].src])
    /\ Ascending([j \in DOMAIN errors |-> errors[j].data])
    /\ \A c \in csv_result :
          c.read_ok =>
             /\ Ascending([j \in DOMAIN c.data |-> c.data[j].src])
             /\ Ascending([j \in DOMAIN c.errors |-> c.errors[j].data])
    /\ \A d \in handed :
          pub_pc # "idle" =>
             /\ pub_items = d
             /\ \A j \in DOMAIN published_ids :
                   \E k \in 1..pub_idx : ItemOf(published_ids[j]) = pub_items[k]
             /\ Ascending([j \in DOMAIN published_ids |-> ItemOf(published_ids[j]).src])
             /\ Ascending([j \in DOMAIN published_messages |->
                              published_messages[j].item.src])
             /\ \A r \in pub_result : r.message_ids = published_ids

\* Two rows read in two windows of one row each, both valid, both delivered:
\* the message ids come back in the order of the rows.
C25_Witness ==
    /\ batch_size = 1
    /\ \E c \in csv_result : c.read_ok /\ Len(c.data) = 2 /\ c.data[1].src = 1
    /\ \E r \in pub_result :
          /\ Len(r.message_ids) = 2
          /\ ItemOf(r.message_ids[1]).src = 1
          /\ ItemOf(r.message_ids[2]).src = 2

\* The failing source rows of a result, each with its error message.
Failures(result) == {<<result.errors[j].data, result.errors[j].error>> : j \in DOMAIN result.errors}

\* C26: the batch window size does not change validation semantics: for
\* every list of rows and every two batch sizes b1, b2 >= 1,
\* process_csv_file yields the same `data` list (the same records in the
\* same order) and the same set of failing source rows with the same error
\* messages.
C26_WindowSizeIrrelevant ==
    \A c \in csv_runs :
        /\ c.first.data = c.second.data
        /\ Failures(c.first) = Failures(c.second)
        /\ c.first.error_count = c.second.error_count
        /\ c.first.processed_rows = c.second.processed_rows

\* Three rows, the first valid and the others failing in two ways, read in
\* windows of one row and in windows of two: the same record and the same
\* failures, though the second window's errors carry other row numbers.
C26_Witness ==
    \E c \in csv_runs :
        /\ c.rows = <<"ok", "invalid", "crash">>
        /\ c.b1 = 1 /\ c.b2 = 2
        /\ Len(c.first.data) = 1
        /\ Cardinality(Failures(c.first)) = 2
        /\ \E j \in DOMAIN c.first.errors : c.first.errors[j].row # c.second.errors[j].row

\* C27: when the staged source cannot be accessed during CSV processing (the
\* file is missing, larger than the maximum size, or cannot be read or
\* parsed), the item is routed to the dead-letter sink as a file_error
\* envelope and not as validation_errors, nothing is published, and
\* process_file returns success False.
C27_SourceFailureIsFileError ==
    \A pd \in csv_result :
        (pf_pc = "done" /\ ~pd.read_ok) =>
            /\ Cardinality(Envelopes("file_error")) = 1
            /\ Envelopes("validation_errors") = {}
            /\ handed = NoValue
            /\ published_messages = <<>>
            /\ pf_result # NoValue
            /\ \A r \in pf_result : ~r.success

\* The column list of schema t, the headers that are in it and in neither
\* other schema's list, and the case-folded headers of a call.
ColumnList(t) ==
    Range(IF t = "transaction" THEN TRANSACTION_CSV_HEADERS
          ELSE IF t = "shop" THEN SHOP_CSV_HEADERS ELSE PRODUCT_CSV_HEADERS)

OnlyInEach ==
    [t \in DataTypes |->
        {h \in ColumnList(t) : \A o \in DataTypes \ {t} : h \notin ColumnList(o)}]

OnlyIn(t) == OnlyInEach[t]

Folded(c) == {col[1] : col \in c.columns}

Matched(c, t) == Cardinality(Folded(c) \cap ColumnList(t))

NoUniqueHeader(c) == \A t \in DataTypes : Folded(c) \cap OnlyIn(t) = {}

\* C28: _detect_data_type returns transaction whenever the header set has
\* no header unique to any schema and no schema's full column list is
\* matched by more than the threshold, and also whenever the source cannot
\* be read at all: the read error is not propagated.
C28_FallbackIsTransaction ==
    \A c \in detected :
        /\ c.ret \in DataTypes
        /\ c.fs # "ok" => c.ret = "transaction"
        /\ (NoUniqueHeader(c) /\ \A t \in DataTypes : Matched(c, t) <= 5) =>
              c.ret = "transaction"

\* A readable file with five of the six headers that the shop and the
\* product layout share, and one header no layout has: no list is matched
\* by more than five headers and the answer is transaction.
C28_Witness ==
    \E c \in detected :
        /\ c.fs = "ok"
        /\ NoUniqueHeader(c)
        /\ Matched(c, "shop") = 5 /\ Matched(c, "product") = 5
        /\ Cardinality(Folded(c)) = 6
        /\ c.ret = "transaction"

\* C29: for each schema type T of transaction, shop and product, a
\* case-folded header set with at least one header unique to T (in T's
\* column list and in neither other schema's list) and no header unique to
\* another schema is detected as T.
C29_UniqueHeaderDecides ==
    \A c \in detected : \A t \in DataTypes :
        (/\ c.fs = "ok"
         /\ Folded(c) \cap OnlyIn(t) # {}
         /\ \A o \in DataTypes \ {t} : Folded(c) \cap OnlyIn(o) = {}) =>
            c.ret = t

\* A file in upper case with one header only the product layout has and
\* the six headers it shares with the shop layout: detected as product.
C29_Witness ==
    \E c \in detected :
        /\ c.fs = "ok"
        /\ \E col \in c.columns : col[2] = "upper"
        /\ Cardinality(Folded(c) \cap OnlyIn("product")) = 1
        /\ Folded(c) \cap OnlyIn("shop") = {} /\ Folded(c) \cap OnlyIn("transaction") = {}
        /\ Matched(c, "shop") = 6
        /\ c.ret = "product"

\* C30: when the header set matches no schema's unique headers,
\* _detect_data_type counts the intersection with each schema's full column
\* list, checking transaction, then shop, then product, and returns the
\* first type whose intersection size is strictly greater than 5; an
\* intersection of exactly 5 does not match.
C30_FallbackThreshold ==
    \A c \in detected :
        (c.fs = "ok" /\ NoUniqueHeader(c)) =>
            LET over == {i \in DOMAIN TypeOrder : Matched(c, TypeOrder[i]) > 5}
            IN /\ over # {} =>
                    \E i \in over : c.ret = TypeOrder[i] /\ \A j \in over : i <= j
               /\ \A t \in DataTypes \ {"transaction"} :
                    Matched(c, t) <= 5 => c.ret # t

\* The six headers shared by the shop and the product layout and nothing
\* unique: both lists are matched by six headers and shop, tried first, is
\* the answer.
C30_Witness ==
    \E c \in detected :
        /\ c.fs = "ok"
        /\ NoUniqueHeader(c)
        /\ Matched(c, "transaction") = 1
        /\ Matched(c, "shop") = 6 /\ Matched(c, "product") = 6
        /\ c.ret = "shop"

\* The schemas some unique header of which is among the headers of a call.
UniqueHits(c) == {i \in DOMAIN TypeOrder : Folded(c) \cap OnlyIn(TypeOrder[i]) # {}}

\* C39: _detect_data_type is deterministic when the header set intersects
\* the unique-header sets of more than one schema: it returns the first
\* matching type in the fixed order transaction, shop, product, whatever
\* the spelling of the headers and whatever else the file holds.
C39_FirstUniqueMatchWins ==
    \A c \in detected :
        (c.fs = "ok" /\ Cardinality(UniqueHits(c)) > 1) =>
            \E i \in UniqueHits(c) :
                /\ c.ret = TypeOrder[i]
                /\ \A j \in UniqueHits(c) : i <= j

\* A file with a header only the shop layout has and one only the product
\* layout has: detected as shop.
C39_Witness ==
    \E c \in detected :
        /\ c.fs = "ok"
        /\ Folded(c) \cap OnlyIn("transaction") = {}
        /\ Folded(c) \cap OnlyIn("shop") # {}
        /\ Folded(c) \cap OnlyIn("product") # {}
        /\ c.ret = "shop"

\* C40: with the three fixed column layouts, when the header set has no
\* header unique to any schema, the full-column fallback returns shop
\* exactly when the headers include all six columns the shop and the
\* product layout share (shop_id, name, description, category, status,
\* last_updated) and transaction, the default, otherwise; it never returns
\* product and never selects transaction by intersection count.
C40_FallbackWithFixedLayouts ==
    \A c \in detected :
        (c.fs = "ok" /\ NoUniqueHeader(c)) =>
            /\ c.ret = IF {"shop_id", "name", "description", "category", "status",
                           "last_updated"} \subseteq Folded(c)
                       THEN "shop" ELSE "transaction"
            /\ c.ret # "product"
            /\ Matched(c, "transaction") <= 5

\* The six shared columns in upper case with a column no layout has: shop.
C40_Witness ==
    \E c \in detected :
        /\ c.fs = "ok"
        /\ NoUniqueHeader(c)
        /\ Cardinality(Folded(c)) = 7
        /\ \A col \in c.columns : col[2] = "upper"
        /\ {"shop_id", "name", "description", "category", "status", "last_updated"}
              \subseteq Folded(c)
        /\ c.ret = "shop"

\* The event was rejected before process_file: nothing was downloaded,
\* published or sent to the DLQ.
NothingDone ==
    /\ pf_pc = "idle"
    /\ trace = <<>>
    /\ local_file_path = None
    /\ published_messages = <<>>
    /\ dlq_log = <<>>
    /\ dlq_messages = <<>>

\* C33: process_gcs_event invokes process_file only when the event carries
\* both a bucket name and an object name and the object's file type is
\* supported; when a name is missing it returns success False, when the
\* type is unsupported it returns success False with skipped True, and in
\* both rejected cases nothing is downloaded, published or sent to the DLQ.
C33_EventGate ==
    \A e \in event_data :
        /\ pf_pc # "idle" =>
              e.bucket_name /\ e.object_name /\ e.file_type = "supported"
        /\ (~e.bucket_name \/ ~e.object_name) =>
              /\ evt_pc = "done"
              /\ \A r \in evt_result : ~r.success /\ ~r.skipped
              /\ NothingDone
        /\ (e.bucket_name /\ e.object_name /\ e.file_type = "unsupported") =>
              /\ evt_pc = "done"
              /\ \A r \in evt_result : ~r.success /\ r.skipped
              /\ NothingDone

\* An event with both names for an object of an unsupported type: skipped.
C33_Witness ==
    /\ evt_pc = "done"
    /\ \E e \in event_data :
          e.bucket_name /\ e.object_name /\ e.file_type = "unsupported"
    /\ \E r \in evt_result : ~r.success /\ r.skipped /\ r.file_result = NoValue

\* process_csv_file has read a source with no data row.
EmptySourceRead == \E pd \in csv_result : pd.read_ok /\ rows = <<>>

\* C34: an empty source (zero data rows) is a valid, non-error outcome:
\* process_csv_file returns total_rows 0 with empty data and empty errors,
\* and process_file then sends no DLQ envelope, makes no publish call, still
\* cleans up the staged file and returns success True with published_count 0
\* and failed_count 0.
C34_EmptySourceSucceeds ==
    EmptySourceRead =>
        /\ \A pd \in csv_result :
              /\ pd.total_rows = 0 /\ pd.processed_rows = 0 /\ pd.error_count = 0
              /\ pd.data = <<>> /\ pd.errors = <<>>
        /\ dlq_log = <<>>
        /\ Count("publish") = 0 /\ pub_pc = "idle" /\ handed = NoValue
        /\ published_messages = <<>>
        /\ pf_pc \in {"csv_wait", "publish", "cleanup", "done"}
        /\ pf_pc = "done" =>
              /\ Last(trace) = "cleanup" /\ cleanup_ret # None
              /\ \E r \in pf_result :
                    /\ r.success
                    /\ \A pr \in r.publishing_summary :
                          /\ pr.published_count = 0 /\ pr.failed_count = 0
                          /\ pr.message_ids = <<>>
                    /\ r.publishing_summary # NoValue

\* process_file has returned for a staged file that held no data row.
C34_Witness ==
    /\ EmptySourceRead
    /\ pf_pc = "done"
    /\ \E r \in pf_result : r.success /\ The(r.processing_summary).total_rows = 0
    /\ Count("cleanup") = 1

\* C36: for every result of process_file with success True,
\* publishing_summary.published_count + failed_count equals
\* processing_summary.processed_rows and message_ids holds published_count
\* ids: every record that passed validation was either published or counted
\* as failed.
C36_PublishedPlusFailedIsProcessed ==
    \A r \in pf_result :
        r.success =>
            /\ r.processing_summary # NoValue /\ r.publishing_summary # NoValue
            /\ \A ps \in r.processing_summary, pb \in r.publishing_summary :
                  /\ pb.published_count + pb.failed_count = ps.processed_rows
                  /\ Len(pb.message_ids) = pb.published_count

\* A file of two valid rows: one record was published and one failed.
C36_Witness ==
    /\ pf_pc = "done"
    /\ \E r \in pf_result :
          /\ r.success
          /\ The(r.processing_summary).processed_rows = 2
          /\ The(r.publishing_summary).published_count = 1
          /\ The(r.publishing_summary).failed_count = 1

\* The consequence of C36 for process_multiple_files: the records published
\* over all items are at most the records processed over all items.
PublishedWithinProcessed ==
    \A res \in multi_result :
        "total_records_published" \in DOMAIN res =>
            res.total_records_published <= res.total_records_processed

\* The envelopes of one category the DLQ did not take: the sender answered False.
Undelivered(category) == {i \in Envelopes(category) : ~dlq_log[i].delivered}

\* What process_file returns, from what the download, the steps that can
\* raise, process_csv_file and publish_batch_data did; no DLQ answer in it.
ResultWhateverTheDlq ==
    IF local_file_path = None THEN FileFailure("download_failed")
    ELSE IF pf_fault # None THEN FileFailure("file_exception")
    ELSE FileSuccess(The(csv_result), The(publishing_result))

\* C37: a failed DLQ delivery never stops or alters the single-item
\* pipeline: when a DLQ sender returns False during process_file the
\* remaining steps still run (the valid records are still handed to the
\* publisher after a failed validation_errors send, the staged file is
\* still cleaned up after a failed publishing_error send) and process_file
\* returns what it returns when the send succeeds.
C37_FailedDlqSendChangesNothing ==
    pf_pc = "done" =>
        /\ pf_result = Some(ResultWhateverTheDlq)
        /\ (Undelivered("validation_errors") # {} /\ The(csv_result).data # <<>>) =>
              /\ Count("publish") = 1
              /\ handed = Some(The(csv_result).data)
        /\ Undelivered("publishing_error") # {} =>
              /\ Last(trace) = "cleanup"
              /\ cleanup_ret # None
              /\ \E r \in pf_result : r.success

\* Both envelopes of one file were refused by the DLQ; the valid record was
\* handed to the publisher, the file cleaned up, the result a success.
C37_Witness ==
    /\ pf_pc = "done"
    /\ Undelivered("validation_errors") # {}
    /\ Undelivered("publishing_error") # {}
    /\ Count("publish") = 1
    /\ Last(trace) = "cleanup"
    /\ \E r \in pf_result : r.success

\* The result the worker of item i ended with.
ComputedFor(i) == The(fut_outcome[i]).result

\* The entries of the results list that name item i.
EntriesOf(i) == {j \in DOMAIN results : results[j].file_info = file_list[i]}

\* C38: when all N items complete before the deadline, the results list
\* returned by process_multiple_files contains exactly one entry per
\* submitted item, for every completion order of the workers: no item is
\* missing or duplicated, each entry's file_info is the item it was computed
\* for, and the aggregate counts do not depend on the completion order
\* (they are the sums over the items in list order).
C38_OneEntryPerItem ==
    (multi_pc = "done" /\ file_list # <<>>) =>
        \E res \in multi_result :
            /\ res.results = results
            /\ \A i \in DOMAIN file_list : fut_outcome[i] # NoValue
            /\ Len(results) = Len(file_list)
            /\ \A i \in DOMAIN file_list : Cardinality(EntriesOf(i)) = 1
            /\ \A j \in DOMAIN results :
                  results[j].result = ComputedFor(results[j].file_info)
            /\ res.processed_files = Len(file_list)
            /\ res.successful_files =
                  Sum([i \in DOMAIN file_list |-> IF ComputedFor(i).success THEN 1 ELSE 0])
            /\ res.failed_files = Len(file_list) - res.successful_files
            /\ res.total_records_processed =
                  Sum([i \in DOMAIN file_list |-> ProcessedRowsOf([result |-> ComputedFor(i)])])
            /\ res.total_records_published =
                  Sum([i \in DOMAIN file_list |-> PublishedCountOf([result |-> ComputedFor(i)])])

\* Three items, collected in an order that is not the list order, the
\* second a failure and the others successes of different sizes.
C38_Witness ==
    /\ multi_pc = "done"
    /\ Len(file_list) = 3
    /\ results[1].file_info = 3 /\ results[2].file_info = 1 /\ results[3].file_info = 2
    /\ ~ComputedFor(2).success
    /\ ComputedFor(1).success /\ ComputedFor(3).success
    /\ ComputedFor(1) # ComputedFor(3)

\* The step was one send attempt of publish_batch_data.
SendAttempt == pub_pc = "loop" /\ pub_idx' = pub_idx + 1

\* C35: after any sequence of publish_batch_data and clear_message_history
\* calls on one BatchPublisher the length of published_messages is the
\* number of records delivered since the last clear: a send attempt that
\* ends in a delivery appends exactly one history entry, the one of the
\* message delivered, an attempt that fails appends none, no other step
\* changes the history but clear_message_history, which empties it, and
\* get_topic_info answers published_count = that length. The ids in the
\* history are the last ids the transport gave out, one entry each.
C35_HistoryCountsDeliveries ==
    [][/\ SendAttempt =>
             \E c \in pub_call' :
                IF c.delivered
                THEN /\ Len(published_messages') = Len(published_messages) + 1
                     /\ SubSeq(published_messages', 1, Len(published_messages))
                           = published_messages
                     /\ Last(published_messages').message_id = c.ret
                     /\ Last(published_messages').item = pub_items[pub_idx + 1]
                ELSE published_messages' = published_messages
       /\ ~SendAttempt =>
             \/ published_messages' = published_messages
             \/ /\ published_messages' = <<>>
                /\ pub_pc \in {"idle", "done"}
                /\ UNCHANGED <<pub_pc, pub_result, next_id>>
       /\ \A t \in topic_info' :
             topic_info' # topic_info => t.published_count = Len(published_messages')
       /\ \A j \in DOMAIN published_messages' :
             published_messages'[j].message_id
                = next_id' - Len(published_messages') + j - 1]_vars

\* A second call of publish_batch_data after a clear has delivered one
\* record and failed one, and get_topic_info has answered 1.
C35_Witness ==
    /\ pub_pc = "done"
    /\ next_id = 3
    /\ Len(published_messages) = 1
    /\ published_messages[1].message_id = 2
    /\ \E r \in pub_result : r.published_count = 1 /\ r.failed_count = 1
    /\ \E t \in topic_info : t.published_count = 1

\* The fractional digits of the amount that are left after its trailing
\* zeros are trimmed.
RECURSIVE FractionalDigits(_)
FractionalDigits(frac) ==
    IF frac = <<>> THEN 0
    ELSE IF Last(frac) = 0 THEN FractionalDigits(SubSeq(frac, 1, Len(frac) - 1))
    ELSE Len(frac)

\* C31: in _process_batch with precision limit 2, a transaction row whose
\* amount has more than 2 significant fractional digits after trimming
\* trailing zeros is rejected into errors with the message that it has more
\* than 2 decimal places and does not appear in data, even when it meets
\* every other constraint; an amount with at most 2 fractional digits passes
\* the guard.
C31_DecimalGuard ==
    \A r \in amount_row :
        IF FractionalDigits(r.amount.frac) > 2
        THEN /\ r.data = <<>>
             /\ Len(r.errors) = 1
             /\ r.errors[1].error = "more_than_2_decimal_places"
        ELSE r.guard

\* The statement of C31 for the amounts the guard can tell apart: an amount
\* that is not rounded up at the seventh place and whose third to seventh
\* fractional digit is not all zeros is rejected with the message of the
\* guard, and an amount with at most 2 fractional digits passes it.
DecimalGuardToSevenPlaces ==
    \A r \in amount_row :
        /\ (DigitAt(r.amount, 8) < 5 /\ \E k \in 3..7 : DigitAt(r.amount, k) # 0) =>
              /\ r.data = <<>>
              /\ Len(r.errors) = 1
              /\ r.errors[1].error = "more_than_2_decimal_places"
        /\ FractionalDigits(r.amount.frac) <= 2 => r.guard

\* The amount 99.99000001 has passed the guard and the schema: it is in data.
PastTheGuard ==
    \E r \in amount_row :
        /\ r.amount = [units |-> 99, frac |-> <<9, 9, 0, 0, 0, 0, 0, 1>>]
        /\ r.guard
        /\ r.data = <<[amount |-> r.amount]>>
        /\ r.errors = <<>>

\* The encoding is a text that is empty or holds only blanks.
Blank(encoding) == encoding.is_str /\ \A k \in DOMAIN encoding.text : encoding.text[k] = " "

\* C32: constructing CSVProcessor (and therefore BatchProcessor) with
\* batch_size <= 0 or with an empty or whitespace-only encoding fails at
\* construction with a configuration error, before any file is fetched, any
\* row is processed or any message is sent.
C32_InvalidConfigFailsFast ==
    \A c \in constructed :
        (c.batch_size <= 0 \/ Blank(c.encoding)) =>
            /\ c.raised = "ValueError"
            /\ csv_pc = "idle" /\ csv_result = NoValue /\ rows = <<>>
            /\ processed_data = <<>> /\ errors = <<>>
            /\ pf_pc = "idle" /\ trace = <<>> /\ local_file_path = None
            /\ pub_pc = "idle" /\ published_messages = <<>>
            /\ dlq_log = <<>> /\ dlq_messages = <<>>

\* A configuration with a window of two rows and the encoding "  ": the
\* constructor raised.
C32_Witness ==
    \E c \in constructed :
        /\ c.batch_size = 2
        /\ c.encoding = [is_str |-> TRUE, text |-> <<" ", " ">>]
        /\ c.raised = "ValueError"

\* A configuration with a positive window and an encoding with a letter is
\* accepted, and the processor built works with that window.
ValidConfigBuilds ==
    \A c \in constructed :
        (c.batch_size > 0 /\ c.encoding.is_str /\ ~Blank(c.encoding)) =>
            c.raised = None /\ batch_size = c.batch_size

====
